---------------------------- MODULE Spec2Model ----------------------------
(***************************************************************************)
(* A model of git-stats: the pairing aggregator (src/author_counts.rs),    *)
(* the Co-Authored-By trailer parser (co-authors/src/lib.rs), the string   *)
(* interner (src/stringcache.rs) and the repository pass with its name     *)
(* normalizer (src/repo.rs), the additions and deletions per author        *)
(* (src/author_path_counts.rs), and the terminal view: its author list and *)
(* App (src/app.rs) and its event loop (src/ui.rs).                        *)
(*                                                                         *)
(* SpecCounts drives AuthorCounts::add_pair over a bounded set of author   *)
(* ids.  SpecParse assembles a line of text from a bounded set of pieces   *)
(* and applies CoAuthor::try_from / get_co_author to it.  SpecCache        *)
(* interns and reads strings.  SpecNormalize applies the normalizer to a   *)
(* bounded set of rules and names.  SpecRepo runs extract_author_counts    *)
(* over the items of a revision walk and reads the returned counts.        *)
(* SpecPath adds to an AuthorPathCounts.  SpecList drives a StatefulList,  *)
(* SpecApp calls the handlers of App in any order, and SpecLoop runs the   *)
(* input thread and the main loop of render_coauthors side by side.        *)
(***************************************************************************)
EXTENDS Integers, Sequences, FiniteSets, TLC

VARIABLES
    counts,     \* AuthorCounts: subject id -> (co-author id -> PairedWith)
    log,        \* history: <<driver, navigator>> -> number of add_pair calls made
    ncalls,     \* history: number of add_pair calls made so far
    pieces,     \* the pieces the current line was assembled from
    line,       \* the line handed to the parser, a sequence of characters
    call,       \* the last parser call on the line and what it returned
    string_cache,   \* StringCache.index_set: the interned strings, by id
    issued,     \* history: string -> the id its first intern returned
    order,      \* history: the distinct strings interned, first seen first
    cache_call, \* the last StringCache call and what it returned
    rules,      \* Replacements.0: the (from, to) pairs, in order
    raw,        \* the name handed to the normalizer
    norm_call,  \* the last normalizer call and what it returned
    phase,      \* extract_author_counts: "idle", or "walking" inside the fold
    result,     \* what the last extract_author_counts returned
    item,       \* the last item the revision walk yielded
    pairs,      \* history: the add_pair calls made for that item, in order
    raised,     \* history: the git errors raised during the current pass
    nwalked,    \* history: the number of items walked so far
    view_call,  \* the last read of the returned counts and what it returned
    path_counts,    \* AuthorPathCounts: author id -> Modifications
    path_sums,  \* history: author id -> the amounts passed, added up
    path_call,  \* the last AuthorPathCounts call and what it returned
    overflow_checks,    \* the build panics on integer overflow (else it wraps)
    list,       \* a StatefulList: state.selected, items, current_items
    list_call,  \* the last StatefulList call
    app,        \* the App of the terminal view
    app_call,   \* the last App handler called
    extracted,  \* history: the number of extract_coauthors calls made
    chan,       \* the mpsc channel of Events: queued keys, sender alive
    input_thread,   \* the thread spawned by Events::with_config
    main_loop   \* the loop of render_coauthors

vars == <<counts, log, ncalls, pieces, line, call,
          string_cache, issued, order, cache_call, rules, raw, norm_call,
          phase, result, item, pairs, raised, nwalked, view_call,
          path_counts, path_sums, path_call, overflow_checks,
          list, list_call, app, app_call, extracted, chan, input_thread, main_loop>>

countsVars == <<counts, log, ncalls>>
parseVars == <<pieces, line, call>>
cacheVars == <<string_cache, issued, order, cache_call>>
normVars == <<rules, raw, norm_call>>
repoVars == <<phase, result, item, pairs, raised, nwalked, view_call>>
pathVars == <<path_counts, path_sums, path_call, overflow_checks>>
uiVars == <<list, list_call, app, app_call, extracted, chan, input_thread, main_loop>>

(***************************************************************************)
(* Bounds of the model.                                                    *)
(***************************************************************************)
NumAuthors == 3
MaxCalls == 4
MaxHead == 3
MaxRules == 2
MaxNameLen == 2
MaxWalk == 2
MaxPathCalls == 3
MaxItems == 3
MaxFilterLen == 2
MaxExtractions == 3
MaxKeys == 3

Authors == 0 .. (NumAuthors - 1)

(***************************************************************************)
(* src/author_counts.rs                                                    *)
(***************************************************************************)

\* #[derive(Default)] PairedWith { as_driver: 0, total: 0 }
PairedWithDefault == [as_driver |-> 0, total |-> 0]

\* #[derive(Default)] PairingCounts: the empty map
PairingCountsDefault == [a \in {} |-> PairedWithDefault]

\* #[derive(Default)] AuthorCounts: the empty map
AuthorCountsDefault == [a \in {} |-> PairingCountsDefault]

\* faulty variant of inc_driver: total is not incremented
inc_driver_no_total(pw) == [as_driver |-> pw.as_driver + 1, total |-> pw.total]

\* PairedWith::inc_driver
inc_driver(pw) == [as_driver |-> pw.as_driver + 1, total |-> pw.total + 1]

\* faulty variant of inc_navigator: as_driver is incremented too
inc_navigator_as_driver(pw) == [as_driver |-> pw.as_driver + 1, total |-> pw.total + 1]

\* PairedWith::inc_navigator
inc_navigator(pw) == [as_driver |-> pw.as_driver, total |-> pw.total + 1]

\* PairingCounts::paired_with: self.0.entry(author).or_default()
paired_with(pc, a) ==
    IF a \in DOMAIN pc
    THEN pc
    ELSE [x \in (DOMAIN pc) \cup {a} |-> IF x = a THEN PairedWithDefault ELSE pc[x]]

\* AuthorCounts::author: self.0.entry(author).or_default()
author(c, a) ==
    IF a \in DOMAIN c
    THEN c
    ELSE [x \in (DOMAIN c) \cup {a} |-> IF x = a THEN PairingCountsDefault ELSE c[x]]

\* faulty variant of driver_update: the entry is created but not counted
driver_update_created_only(c, driver, navigator) ==
    LET c1 == author(c, driver)
    IN  [c1 EXCEPT ![driver] = paired_with(c1[driver], navigator)]

\* self.author(driver).paired_with(navigator).inc_driver()
driver_update(c, driver, navigator) ==
    LET c1 == author(c, driver)
        p1 == paired_with(c1[driver], navigator)
    IN  [c1 EXCEPT ![driver] = [p1 EXCEPT ![navigator] = inc_driver(@)]]

\* self.author(navigator).paired_with(driver).inc_navigator()
navigator_update(c, driver, navigator) ==
    LET c1 == author(c, navigator)
        p1 == paired_with(c1[navigator], driver)
    IN  [c1 EXCEPT ![navigator] = [p1 EXCEPT ![driver] = inc_navigator(@)]]

\* faulty variant of add_pair: no driver != navigator guard
add_pair_unguarded(c, driver, navigator) ==
    navigator_update(driver_update(c, driver, navigator), driver, navigator)

\* faulty variant of add_pair: the navigator side is not updated
add_pair_driver_only(c, driver, navigator) ==
    IF driver # navigator
    THEN driver_update(c, driver, navigator)
    ELSE c

\* AuthorCounts::add_pair
add_pair(c, driver, navigator) ==
    IF driver # navigator
    THEN navigator_update(driver_update(c, driver, navigator), driver, navigator)
    ELSE c

\* counts[a][b] read with a missing entry counted as zero
Entry(c, a, b) ==
    IF a \in DOMAIN c /\ b \in DOMAIN c[a] THEN c[a][b] ELSE PairedWithDefault

\* whether the entry counts[a][b] is stored
HasEntry(c, a, b) == a \in DOMAIN c /\ b \in DOMAIN c[a]

\* no string cache is in use
CacheUnused ==
    /\ string_cache = <<>>
    /\ issued = <<>>
    /\ order = <<>>
    /\ cache_call = [fn |-> "none"]

\* no name is being normalized
NormUnused ==
    /\ rules = <<>>
    /\ raw = <<>>
    /\ norm_call = [fn |-> "none"]

\* no repository is open
RepoUnused ==
    /\ phase = "idle"
    /\ result = [tag |-> "none"]
    /\ item = [kind |-> "none"]
    /\ pairs = <<>>
    /\ raised = <<>>
    /\ nwalked = 0
    /\ view_call = [fn |-> "none"]

\* no AuthorPathCounts is in use
PathUnused ==
    /\ path_counts = <<>>
    /\ path_sums = <<>>
    /\ path_call = [fn |-> "none"]
    /\ overflow_checks = FALSE

\* no terminal view is in use
UiUnused ==
    /\ list = <<>>
    /\ list_call = [fn |-> "none"]
    /\ app = <<>>
    /\ app_call = [fn |-> "none"]
    /\ extracted = 0
    /\ chan = <<>>
    /\ input_thread = "none"
    /\ main_loop = [at |-> "none"]

\* a new AuthorCounts; no line is being parsed
InitCounts ==
    /\ counts = AuthorCountsDefault
    /\ log = [p \in Authors \X Authors |-> 0]
    /\ ncalls = 0
    /\ pieces = <<>>
    /\ line = <<>>
    /\ call = [fn |-> "none"]
    /\ CacheUnused
    /\ NormUnused
    /\ RepoUnused
    /\ PathUnused
    /\ UiUnused

\* one call counts.add_pair(driver, navigator)
AddPair ==
    /\ ncalls < MaxCalls
    /\ \E driver \in Authors, navigator \in Authors :
          /\ counts' = add_pair(counts, driver, navigator)
          /\ log' = [log EXCEPT ![<<driver, navigator>>] = @ + 1]
    /\ ncalls' = ncalls + 1
    /\ UNCHANGED <<parseVars, cacheVars, normVars, repoVars, pathVars, uiVars>>

NextCounts == AddPair

SpecCounts == InitCounts /\ [][NextCounts]_vars


(***************************************************************************)
(* Properties of the pairing aggregator, under SpecCounts.                 *)
(***************************************************************************)

\* the step is the call add_pair(d, n), as the call history records it
IsCall(d, n) == log' = [log EXCEPT ![<<d, n>>] = @ + 1]

\* every entry other than counts[d][n] and counts[n][d] is as before the
\* step, and no subject other than d and n is created or removed
OthersUntouched(d, n) ==
    /\ \A a \in Authors \ {d, n} : (a \in DOMAIN counts') <=> (a \in DOMAIN counts)
    /\ \A a \in Authors, b \in Authors :
          <<a, b>> \notin {<<d, n>>, <<n, d>>} =>
              /\ HasEntry(counts', a, b) <=> HasEntry(counts, a, b)
              /\ Entry(counts', a, b) = Entry(counts, a, b)

\* C1: for driver # navigator, one add_pair(driver, navigator) adds exactly 1
\* to as_driver and to total of counts[driver][navigator], adds exactly 1 to
\* total of counts[navigator][driver] and leaves its as_driver as it was
\* (a missing entry counts as zero before the call), and changes no other
\* entry of any author.
C1_AddPairEffect ==
    [][\A d \in Authors, n \in Authors :
          (d # n /\ IsCall(d, n)) =>
              /\ HasEntry(counts', d, n)
              /\ HasEntry(counts', n, d)
              /\ Entry(counts', d, n).as_driver = Entry(counts, d, n).as_driver + 1
              /\ Entry(counts', d, n).total = Entry(counts, d, n).total + 1
              /\ Entry(counts', n, d).total = Entry(counts, n, d).total + 1
              /\ Entry(counts', n, d).as_driver = Entry(counts, n, d).as_driver
              /\ OthersUntouched(d, n)]_vars

\* add_pair(d, n) has acted twice and add_pair(n, d) once, on entries that
\* existed already, next to a third author's entries
C1_Witness ==
    \E d \in Authors, n \in Authors, o \in Authors :
        /\ d # n /\ o \notin {d, n}
        /\ log[<<d, n>>] = 2 /\ log[<<n, d>>] = 1 /\ log[<<o, d>>] = 1
        /\ Entry(counts, d, n) = [as_driver |-> 2, total |-> 3]
        /\ Entry(counts, n, d) = [as_driver |-> 1, total |-> 3]

\* C2: add_pair(a, a) leaves the whole structure unchanged: no count
\* changes and no subject entry or co-author entry is created for a.
C2_SelfPairNoOp ==
    [][\A a \in Authors : IsCall(a, a) => counts' = counts]_vars

\* add_pair(a, a) has been called twice, other authors hold entries, and a
\* has no entry at all
C2_Witness ==
    \E a \in Authors :
        /\ log[<<a, a>>] >= 2
        /\ a \notin DOMAIN counts
        /\ counts # AuthorCountsDefault

\* C3: from an empty AuthorCounts, N >= 1 calls add_pair(d, n) with the same
\* d # n and no other call yield counts[d][n] = {as_driver: N, total: N} and
\* counts[n][d] = {as_driver: 0, total: N}.
C3_RepeatedPair ==
    \A d \in Authors, n \in Authors :
        (d # n /\ ncalls >= 1 /\ log[<<d, n>>] = ncalls) =>
            /\ HasEntry(counts, d, n)
            /\ HasEntry(counts, n, d)
            /\ counts[d][n] = [as_driver |-> ncalls, total |-> ncalls]
            /\ counts[n][d] = [as_driver |-> 0, total |-> ncalls]

\* the same pair has been added three times and nothing else was called
C3_Witness ==
    \E d \in Authors, n \in Authors :
        d # n /\ ncalls = 3 /\ log[<<d, n>>] = 3

\* C4: after any sequence of add_pair calls on an initially empty
\* AuthorCounts, every stored PairedWith entry has as_driver <= total.
C4_DriverAtMostTotal ==
    \A a \in DOMAIN counts : \A b \in DOMAIN counts[a] :
        counts[a][b].as_driver <= counts[a][b].total

\* an entry that was driven twice and navigated once, and its mirror
C4_Witness ==
    \E a \in DOMAIN counts : \E b \in DOMAIN counts[a] :
        /\ counts[a][b] = [as_driver |-> 2, total |-> 3]
        /\ HasEntry(counts, b, a)
        /\ counts[b][a] = [as_driver |-> 1, total |-> 3]

\* C23: after any sequence of add_pair calls on an empty AuthorCounts the
\* structure is symmetric in every state between calls: for a # b,
\* counts[a][b] is stored iff counts[b][a] is, both totals are equal and are
\* the sum of the two as_driver values, counts[a][b].as_driver is the number
\* of add_pair(a, b) calls made, no counts[a][a] is stored, and every stored
\* entry has total >= 1.
C23_Symmetric ==
    /\ \A a \in Authors : ~HasEntry(counts, a, a)
    /\ \A a \in DOMAIN counts : \A b \in DOMAIN counts[a] :
          /\ a \in Authors /\ b \in Authors
          /\ counts[a][b].total >= 1
    /\ \A a \in Authors, b \in Authors :
          a # b =>
              /\ HasEntry(counts, a, b) <=> HasEntry(counts, b, a)
              /\ Entry(counts, a, b).as_driver = log[<<a, b>>]
              /\ HasEntry(counts, a, b) =>
                    /\ counts[a][b].total = counts[b][a].total
                    /\ counts[a][b].total =
                           counts[a][b].as_driver + counts[b][a].as_driver

\* a pair driven only from one side (the mirror entry has as_driver 0 and is
\* stored all the same), next to a self pairing that left no entry and a
\* pair driven from both sides
C23_Witness ==
    \E a \in Authors, b \in Authors, o \in Authors :
        /\ a # b /\ o \notin {a, b}
        /\ log[<<a, a>>] = 1
        /\ log[<<a, b>>] = 1 /\ log[<<b, a>>] = 0
        /\ log[<<a, o>>] = 1 /\ log[<<o, a>>] = 1
        /\ counts[b][a] = [as_driver |-> 0, total |-> 1]
        /\ counts[a][o] = [as_driver |-> 1, total |-> 2]
        /\ counts[o][a] = [as_driver |-> 1, total |-> 2]
        /\ ~HasEntry(counts, b, o)


(***************************************************************************)
(* co-authors/src/lib.rs: the trailer parser.  Text is a sequence of       *)
(* one-character strings.  An IResult is [ok |-> TRUE, rest, out] or       *)
(* [ok |-> FALSE, code]: every failure of the combinators used here is a   *)
(* recoverable Err::Error carrying an ErrorKind.                           *)
(***************************************************************************)

Ok(rest, out) == [ok |-> TRUE, rest |-> rest, out |-> out]
Error(code) == [ok |-> FALSE, code |-> code]

\* Option<T>
None == <<>>
Some(x) == <<x>>

Take(s, n) == SubSeq(s, 1, n)
Drop(s, n) == SubSeq(s, n + 1, Len(s))

\* the tag of tag_no_case("co-authored-by:")
KEY == <<"c", "o", "-", "a", "u", "t", "h", "o", "r", "e", "d", "-", "b", "y", ":">>

UpperCase == <<"A", "B", "C", "D", "E", "F", "G", "H", "I", "J", "K", "L", "M",
               "N", "O", "P", "Q", "R", "S", "T", "U", "V", "W", "X", "Y", "Z">>
LowerCase == <<"a", "b", "c", "d", "e", "f", "g", "h", "i", "j", "k", "l", "m",
               "n", "o", "p", "q", "r", "s", "t", "u", "v", "w", "x", "y", "z">>

\* char::to_lowercase, on the ASCII range
to_lowercase(c) ==
    IF \E i \in 1 .. Len(UpperCase) : UpperCase[i] = c
    THEN LowerCase[CHOOSE i \in 1 .. Len(UpperCase) : UpperCase[i] = c]
    ELSE c

\* the characters space0 accepts
SpaceOrTab == {" ", "\t"}

\* the characters str::trim removes
WhiteSpace == {" ", "\t", "\n", "\r"}

\* the number of leading characters of s that are in set
RECURSIVE LeadingIn(_, _)
LeadingIn(s, set) ==
    IF s # <<>> /\ Head(s) \in set THEN 1 + LeadingIn(Tail(s), set) ELSE 0

\* the number of leading characters of s that are not in set
RECURSIVE LeadingNotIn(_, _)
LeadingNotIn(s, set) ==
    IF s # <<>> /\ Head(s) \notin set THEN 1 + LeadingNotIn(Tail(s), set) ELSE 0

\* the number of trailing characters of s that are in set
RECURSIVE TrailingIn(_, _)
TrailingIn(s, set) ==
    IF s # <<>> /\ s[Len(s)] \in set
    THEN 1 + TrailingIn(Take(s, Len(s) - 1), set)
    ELSE 0

\* the input split after its first n characters: what was taken, and the rest
SplitAt(input, n) == Ok(Drop(input, n), Take(input, n))

\* nom::character::complete::space0: zero or more spaces and tabs, never fails
space0(input) == SplitAt(input, LeadingIn(input, SpaceOrTab))

\* nom::bytes::complete::tag: the input starts with t exactly
tag(t, input) ==
    IF Len(input) >= Len(t) /\ \A i \in 1 .. Len(t) : input[i] = t[i]
    THEN SplitAt(input, Len(t))
    ELSE Error("Tag")

\* faulty variant of tag_no_case: the characters compared as they are
tag_case_sensitive(t, input) ==
    IF Len(input) >= Len(t) /\ \A i \in 1 .. Len(t) : input[i] = t[i]
    THEN SplitAt(input, Len(t))
    ELSE Error("Tag")

\* faulty variant of tag_no_case: no check that the input is as long as t
tag_no_case_zipped(t, input) ==
    IF \A i \in 1 .. Len(t) :
          i <= Len(input) => to_lowercase(input[i]) = to_lowercase(t[i])
    THEN SplitAt(input, IF Len(t) <= Len(input) THEN Len(t) ELSE Len(input))
    ELSE Error("Tag")

\* nom::bytes::complete::tag_no_case: the input starts with t, the characters
\* compared after to_lowercase
tag_no_case(t, input) ==
    IF /\ Len(input) >= Len(t)
       /\ \A i \in 1 .. Len(t) : to_lowercase(input[i]) = to_lowercase(t[i])
    THEN SplitAt(input, Len(t))
    ELSE Error("Tag")

\* the split of take_until at the n characters before the first match; there
\* is no match when n is the whole input
take_until_split(input, n) ==
    IF n = Len(input) THEN Error("TakeUntil") ELSE SplitAt(input, n)

\* faulty variant of take_until: the whole input when there is no match
take_until_or_rest(c, input) == SplitAt(input, LeadingNotIn(input, {c}))

\* nom::bytes::complete::take_until(c): the text before the first c; the rest
\* starts at that c
take_until(c, input) == take_until_split(input, LeadingNotIn(input, {c}))

\* the split of is_not after the n leading characters not in the set
is_not_split(input, n) ==
    IF n = 0 THEN Error("IsNot") ELSE SplitAt(input, n)

\* a faulty is_not: only ">" ends the text, blanks are taken
is_not_closing_only(set, input) == is_not_split(input, LeadingNotIn(input, {">"}))

\* nom::bytes::complete::is_not(set): one or more characters not in set
is_not(set, input) == is_not_split(input, LeadingNotIn(input, set))

\* s without its first a and its last b characters (nothing when a covers s)
Strip(s, a, b) == IF a = Len(s) THEN <<>> ELSE SubSeq(s, a + 1, Len(s) - b)

\* str::trim
trim(s) == Strip(s, LeadingIn(s, WhiteSpace), TrailingIn(s, WhiteSpace))

\* delimited(space0, key, space0), after the result b of the key: its error,
\* or the trailing space0
key_trailing(b) == IF b.ok THEN Ok(space0(b.rest).rest, <<>>) ELSE b

\* delimited(space0, key, space0), after the result a of the leading space0
\* (which never fails): map(tag_no_case("co-authored-by:"), |_| ())
key_tag(a) == key_trailing(tag_no_case(KEY, a.rest))

\* delimited(space0, map(tag_no_case("co-authored-by:"), |_| ()), space0)
key_unit(input) == key_tag(space0(input))

RECURSIVE many1_more(_, _)

\* one turn of the loop of nom::multi::many1 with the result r of the parser
\* on i: a recoverable error ends the loop with the n outputs collected
many1_turn(i, n, r) ==
    IF ~r.ok THEN Ok(i, n)
    ELSE IF Len(r.rest) = Len(i) THEN Error("Many1")
    ELSE many1_more(r.rest, n + 1)

\* the loop of nom::multi::many1 after its first success
many1_more(i, n) == many1_turn(i, n, key_unit(i))

\* faulty variant of many1_first: the first error is replaced by one of
\* kind Many1
many1_first_many1(r) == IF r.ok THEN many1_more(r.rest, 1) ELSE Error("Many1")

\* many1 after the first result r of its parser: its error (the default
\* error type's append keeps it), or the loop
many1_first(r) == IF r.ok THEN many1_more(r.rest, 1) ELSE r

\* faulty variant of co_authored_by: one key, no repetition
co_authored_by_once(input) == key_unit(input)

\* co_authored_by: many1(delimited(space0, key, space0)); out is the length of
\* the Vec<()>
co_authored_by(input) == many1_first(key_unit(input))

\* faulty variant of verify_not_empty: an empty name is accepted
verify_any(rest, name) == Ok(rest, name)

\* verify(.., |s: &str| !s.is_empty())
verify_not_empty(rest, name) ==
    IF name = <<>> THEN Error("Verify") ELSE Ok(rest, name)

\* verify(map(take_until("<"), str::trim), ..) after the result t of
\* take_until
name_trimmed(t) == IF t.ok THEN verify_not_empty(t.rest, trim(t.out)) ELSE t

\* preceded(co_authored_by, ..) after the result k of co_authored_by
name_field(k) == IF k.ok THEN name_trimmed(take_until("<", k.rest)) ELSE k

\* co_author_name: preceded(co_authored_by,
\*                          verify(map(take_until("<"), str::trim), !is_empty))
co_author_name(input) == name_field(co_authored_by(input))

\* delimited(.., .., tag(">")): the output is the text, after the result c of
\* the closing tag
mail_out(text, c) == IF c.ok THEN Ok(c.rest, text) ELSE c

\* delimited(tag("<"), .., tag(">")) after the result b of the text: the
\* closing tag(">")
mail_close(b) == IF b.ok THEN mail_out(b.out, tag(<<">">>, b.rest)) ELSE b

\* delimited(tag("<"), .., ..) after the result a of the opening tag:
\* is_not("> \t")
mail_text(a) == IF a.ok THEN mail_close(is_not({">", " ", "\t"}, a.rest)) ELSE a

\* delimited(tag("<"), is_not("> \t"), tag(">"))
mail_brackets(input) == mail_text(tag(<<"<">>, input))

\* a faulty opt: the failure of the inner parser is passed on
opt_strict(input, r) == IF r.ok THEN Ok(r.rest, Some(r.out)) ELSE r

\* opt(..): a recoverable error is Ok(None) on the unchanged input
opt(input, r) == IF r.ok THEN Ok(r.rest, Some(r.out)) ELSE Ok(input, None)

\* co_author_mail: opt(delimited(tag("<"), is_not("> \t"), tag(">")))
co_author_mail(input) == opt(input, mail_brackets(input))

\* co_author after the result m of co_author_mail(input)?: its error, or
\* Ok((input, (name, email)))
name_and_mail(name, m) ==
    IF m.ok THEN Ok(m.rest, [name |-> name, mail |-> m.out]) ELSE m

\* co_author after the result n of co_author_name(input)?: its error, or
\* the mail
mail_field(n) == IF n.ok THEN name_and_mail(n.out, co_author_mail(n.rest)) ELSE n

\* co_author: the name, then the mail
co_author(input) == mail_field(co_author_name(input))

\* what CoAuthor::try_from returns
OkCoAuthor(name, mail) == [tag |-> "Ok", name |-> name, mail |-> mail]
Err(e) == [tag |-> "Err", error |-> e]
Unreachable(code) == [tag |-> "Panic", code |-> code]

\* faulty variant of error_of_code: the TakeUntil and Verify arms swapped
error_of_code_swapped(code) ==
    IF code = "Tag" THEN Err("MissingTrailerKey")
    ELSE IF code = "TakeUntil" THEN Err("MissingName")
    ELSE IF code = "Verify" THEN Err("MissingMail")
    ELSE Unreachable(code)

\* the arms of match e.code in CoAuthor::try_from
error_of_code(code) ==
    IF code = "Tag" THEN Err("MissingTrailerKey")
    ELSE IF code = "TakeUntil" THEN Err("MissingMail")
    ELSE IF code = "Verify" THEN Err("MissingName")
    ELSE Unreachable(code)

\* the arms of match co_author(line) in CoAuthor::try_from
try_from_match(r) ==
    IF r.ok THEN OkCoAuthor(r.out.name, r.out.mail) ELSE error_of_code(r.code)

\* CoAuthor::try_from
try_from(l) == try_from_match(co_author(l))

\* faulty variant of ok_some: a name without a mail is a co-author
ok_some_lenient(r) ==
    IF r.ok THEN Some([name |-> r.out.name, mail |-> r.out.mail])
    ELSE IF r.code = "TakeUntil" THEN Some([name |-> <<>>, mail |-> None])
    ELSE None

\* co_author(line).ok()? and Some(CoAuthor { name, mail })
ok_some(r) ==
    IF r.ok THEN Some([name |-> r.out.name, mail |-> r.out.mail]) ELSE None

\* get_co_author, as an Option<CoAuthor>
get_co_author(l) == ok_some(co_author(l))

(***************************************************************************)
(* The lines the parser is applied to: up to MaxHead head pieces (keys in  *)
(* two spellings, the three damaged keys of test_missing_trailer_key,      *)
(* blanks, a word) followed by one ending.                                 *)
(***************************************************************************)

KeyLower == KEY
KeyCamel == <<"C", "o", "-", "A", "u", "t", "h", "o", "r", "e", "d", "-", "B", "y", ":">>
KeyUpper == <<"C", "O", "-", "A", "U", "T", "H", "O", "R", "E", "D", "-", "B", "Y", ":">>
KeyMixed == <<"C", "o", "-", "a", "u", "t", "h", "o", "r", "e", "d", "-", "b", "y", ":">>

\* the spellings of the key in test_co_authored_by
KeyCases == {KeyLower, KeyCamel, KeyUpper, KeyMixed}

\* "co-authored-by", "Co-Authored:", "Authored-By:"
NoColon == <<"c", "o", "-", "a", "u", "t", "h", "o", "r", "e", "d", "-", "b", "y">>
NoBy == <<"C", "o", "-", "A", "u", "t", "h", "o", "r", "e", "d", ":">>
NoCo == <<"A", "u", "t", "h", "o", "r", "e", "d", "-", "B", "y", ":">>

BlankPieces == {<<" ">>, <<"\t">>}

Word == <<"A", "l">>
MailBox == <<"<", "a", "@", "w", ">">>

HeadPieces == {KeyMixed, KeyUpper, NoColon, NoBy, NoCo, Word} \cup BlankPieces

\* the damaged mails of test_missing_co_author_mail and of the mail parser:
\* "<a@w", "<a@w&gt;", "<>", "<a@w >", "<a\tw>"
NoClose == <<"<", "a", "@", "w">>
EncodedClose == <<"<", "a", "@", "w", "&", "g", "t", ";">>
EmptyMail == <<"<", ">">>
SpaceInMail == <<"<", "a", "@", "w", " ", ">">>
TabInMail == <<"<", "a", "\t", "w", ">">>

MalformedMails == {NoClose, EncodedClose, EmptyMail, SpaceInMail, TabInMail}

\* "", "<a@w>", "\r<a@w>", "Al <a@w> x", "Al Bo" and the damaged mails
Endings ==
    { <<>>,
      MailBox,
      <<"\r">> \o MailBox,
      Word \o <<" ">> \o MailBox \o <<" ", "x">>,
      Word \o <<" ">> \o <<"B", "o">> } \cup MalformedMails

Heads == UNION {[1 .. k -> HeadPieces] : k \in 0 .. MaxHead}

RECURSIVE Flatten(_)
Flatten(ps) == IF ps = <<>> THEN <<>> ELSE Head(ps) \o Flatten(Tail(ps))

NoCall == [fn |-> "none"]

\* a line to parse, not parsed yet; the aggregator is not used
InitParse ==
    /\ \E h \in Heads, e \in Endings : pieces = Append(h, e)
    /\ line = Flatten(pieces)
    /\ call = NoCall
    /\ counts = AuthorCountsDefault
    /\ log = [p \in Authors \X Authors |-> 0]
    /\ ncalls = 0
    /\ CacheUnused
    /\ NormUnused
    /\ RepoUnused
    /\ PathUnused
    /\ UiUnused

\* CoAuthor::try_from(line)
CallTryFrom ==
    /\ call' = [fn |-> "try_from", ret |-> try_from(line)]
    /\ UNCHANGED <<pieces, line, countsVars, cacheVars, normVars, repoVars, pathVars,
                   uiVars>>

\* get_co_author(line)
CallGetCoAuthor ==
    /\ call' = [fn |-> "get_co_author", ret |-> get_co_author(line)]
    /\ UNCHANGED <<pieces, line, countsVars, cacheVars, normVars, repoVars, pathVars,
                   uiVars>>

NextParse == CallTryFrom \/ CallGetCoAuthor

SpecParse == InitParse /\ [][NextParse]_vars


(***************************************************************************)
(* Properties of the trailer parser, under SpecParse.  What a line is made *)
(* of is read from its pieces, not from the parser.                        *)
(***************************************************************************)

IsKey(p) == p \in KeyCases
IsBlank(p) == p \in BlankPieces

\* the number of leading pieces that are keys or blanks
RECURSIVE StackLen(_)
StackLen(ps) ==
    IF ps # <<>> /\ (IsKey(Head(ps)) \/ IsBlank(Head(ps)))
    THEN 1 + StackLen(Tail(ps))
    ELSE 0

\* the number of keys the line starts with (blanks before, between and after)
KeyCount(ps) == Cardinality({i \in 1 .. StackLen(ps) : IsKey(ps[i])})

\* the line begins, after optional blanks, with the key in some spelling
KeyAtStart == KeyCount(pieces) >= 1

RECURSIVE SkipBlanks(_)
SkipBlanks(s) ==
    IF s # <<>> /\ (Head(s) = " " \/ Head(s) = "\t") THEN SkipBlanks(Tail(s)) ELSE s

\* the text of the pieces after the first j
TextFrom(ps, j) == Flatten(SubSeq(ps, j + 1, Len(ps)))

\* what follows the keys the line starts with and the blanks around them
AfterKeys == SkipBlanks(TextFrom(pieces, StackLen(pieces)))

HasLt(s) == \E i \in 1 .. Len(s) : s[i] = "<"

\* the text of s before its first "<" (all of s when it has none)
RECURSIVE BeforeLt(_)
BeforeLt(s) ==
    IF s = <<>> \/ Head(s) = "<" THEN <<>> ELSE <<Head(s)>> \o BeforeLt(Tail(s))

\* the positions of s that hold no white space
NonBlankAt(s) == {i \in 1 .. Len(s) : s[i] # " " /\ s[i] # "\t" /\ s[i] # "\r"}

\* s from its first to its last non-blank character
Trimmed(s) ==
    IF NonBlankAt(s) = {} THEN <<>>
    ELSE SubSeq(s, CHOOSE i \in NonBlankAt(s) : \A j \in NonBlankAt(s) : i <= j,
                   CHOOSE i \in NonBlankAt(s) : \A j \in NonBlankAt(s) : i >= j)

\* the pieces with every key respelled as v; a line that starts with keys
\* keeps the text after them, which is its name and mail, as it is
Recased(ps, v) ==
    [i \in 1 .. Len(ps) |->
        IF IsKey(ps[i]) /\ (i <= StackLen(ps) \/ KeyCount(ps) = 0)
        THEN v
        ELSE ps[i]]

\* the last call was one of the two entry points
Called == call.fn \in {"try_from", "get_co_author"}

\* what the last call returned, for either entry point
Returned(tryFromRet, getRet) ==
    /\ call.fn = "try_from" => call.ret = tryFromRet
    /\ call.fn = "get_co_author" => call.ret = getRet

\* C5: the key is matched case-insensitively: respelling the letters of the
\* keys of a line in upper or lower case does not change the outcome of the
\* parse (same name and mail, or same failure), and once the keys are
\* consumed the remaining input is what follows the keys and their blanks:
\* it starts at the first non-blank character after them.
C5_KeyCaseInsensitive ==
    /\ \A v \in KeyCases :
          Returned(try_from(Flatten(Recased(pieces, v))),
                   get_co_author(Flatten(Recased(pieces, v))))
    /\ (Called /\ KeyAtStart) =>
          co_authored_by(line) = Ok(AfterKeys, KeyCount(pieces))

\* a parsed line that starts with two keys in different spellings
C5_Witness ==
    /\ call.fn = "try_from"
    /\ call.ret.tag = "Ok"
    /\ KeyCount(pieces) = 2
    /\ \E i \in 1 .. Len(pieces), j \in 1 .. Len(pieces) :
          pieces[i] = KeyUpper /\ pieces[j] = KeyMixed
    /\ AfterKeys # <<>>

\* C6: key stacking is idempotent: a line of k >= 1 keys, each optionally
\* surrounded by spaces or tabs, followed by r parses to the same result as
\* the line of a single key followed by r.
C6_KeyStackingIdempotent ==
    \A j \in 1 .. StackLen(pieces) :
        (\E i \in 1 .. j : IsKey(pieces[i])) =>
            Returned(try_from(KeyMixed \o TextFrom(pieces, j)),
                     get_co_author(KeyMixed \o TextFrom(pieces, j)))

\* a line of two keys with a blank between them and a name and mail after
\* them has been parsed
C6_Witness ==
    /\ call.fn = "try_from"
    /\ KeyCount(pieces) = 2
    /\ StackLen(pieces) = 3
    /\ IsBlank(pieces[2])
    /\ call.ret = OkCoAuthor(Word, Some(<<"a", "@", "w">>))

\* the line has a key, a name after it, and no "<" anywhere
NameOnly == KeyAtStart /\ ~HasLt(line) /\ NonBlankAt(AfterKeys) # {}

\* C7, as the spec states it: a line with a key and a non-empty name but no
\* "<" parses to a success with the trimmed name and an absent mail.
C7_NameOnlyIsSuccess ==
    NameOnly =>
        Returned(OkCoAuthor(Trimmed(AfterKeys), None),
                 Some([name |-> Trimmed(AfterKeys), mail |-> None]))

\* C7, amended: a line with a key and a non-empty name but no "<" is a
\* failure: try_from returns the missing-mail error, get_co_author returns
\* nothing, and neither returns a co-author.
C7_NameOnlyFails ==
    NameOnly =>
        /\ Returned(Err("MissingMail"), None)
        /\ call.fn = "try_from" => call.ret.tag # "Ok"
        /\ call.fn = "get_co_author" => Len(call.ret) = 0

\* get_co_author has returned nothing for a key followed by a name only
C7_Witness ==
    /\ call.fn = "get_co_author"
    /\ NameOnly
    /\ Trimmed(AfterKeys) = Word \o <<" ">> \o <<"B", "o">>
    /\ call.ret = None

\* C8: try_from returns Err(MissingMail) for every line in which the key
\* matches and is followed by a non-empty name but no "<" occurs after the
\* key.
C8_MissingMail ==
    (call.fn = "try_from" /\ KeyAtStart /\ ~HasLt(AfterKeys)
        /\ Trimmed(AfterKeys) # <<>>) =>
        call.ret = Err("MissingMail")

\* try_from has returned the missing-mail error for "<key> Al"
C8_Witness ==
    /\ call.fn = "try_from"
    /\ KeyAtStart
    /\ AfterKeys = Word
    /\ call.ret = Err("MissingMail")

\* C9: for every line that does not begin, after optional spaces or tabs,
\* with the key (the empty line, a key without its colon, a key missing Co-
\* or -By, a key that only appears later in the line), try_from returns
\* Err(MissingTrailerKey) and get_co_author returns None.
C9_MissingTrailerKey ==
    ~KeyAtStart => Returned(Err("MissingTrailerKey"), None)

\* try_from has returned the missing-key error for a line whose key comes
\* after a damaged key
C9_Witness ==
    /\ call.fn = "try_from"
    /\ ~KeyAtStart
    /\ \E i \in 2 .. Len(pieces) : IsKey(pieces[i]) /\ pieces[1] \in {NoColon, NoBy, NoCo}
    /\ call.ret = Err("MissingTrailerKey")

\* C10: for every line in which the key matches (once or stacked) and the
\* text between the last key and the first "<" is empty or only whitespace,
\* try_from returns Err(MissingName), without a panic, and get_co_author
\* returns None, whatever follows the "<".
C10_MissingName ==
    (KeyAtStart /\ HasLt(AfterKeys) /\ NonBlankAt(BeforeLt(AfterKeys)) = {}) =>
        Returned(Err("MissingName"), None)

\* try_from has returned the missing-name error for stacked keys followed by
\* blanks, a carriage return and a mail
C10_Witness ==
    /\ call.fn = "try_from"
    /\ KeyCount(pieces) = 2
    /\ IsBlank(pieces[StackLen(pieces)])
    /\ AfterKeys = <<"\r">> \o MailBox
    /\ call.ret = Err("MissingName")

HasGt(s) == \E i \in 1 .. Len(s) : s[i] = ">"

\* the text of s after its first "<" (nothing when it has none)
RECURSIVE AfterLt(_)
AfterLt(s) ==
    IF s = <<>> THEN <<>> ELSE IF Head(s) = "<" THEN Tail(s) ELSE AfterLt(Tail(s))

\* the text of s before its first ">" (all of s when it has none)
RECURSIVE BeforeGt(_)
BeforeGt(s) ==
    IF s = <<>> \/ Head(s) = ">" THEN <<>> ELSE <<Head(s)>> \o BeforeGt(Tail(s))

\* the text strictly between the first "<" of s and the next ">"
Bracketed(s) == BeforeGt(AfterLt(s))

\* the first "<" of s opens a mail: a ">" follows it, and the text between
\* them is not empty and holds no space and no tab
WellFormedMail(s) ==
    /\ HasGt(AfterLt(s))
    /\ Bracketed(s) # <<>>
    /\ \A i \in 1 .. Len(Bracketed(s)) : Bracketed(s)[i] \notin {" ", "\t"}

\* the mail a line with the text s after its keys is to yield
ExpectedMail(s) == IF WellFormedMail(s) THEN Some(Bracketed(s)) ELSE None

\* the line has a key, a non-empty name after it and a "<" after the name
NameAndLt ==
    KeyAtStart /\ HasLt(AfterKeys) /\ NonBlankAt(BeforeLt(AfterKeys)) # {}

\* C11: for every line with a matching key, a non-empty name and a "<", a
\* malformed mail section (no closing ">", "&gt;" in its place, an empty
\* "<>", a space or tab before the closing ">") does not abort the parse: it
\* succeeds with the name and an absent mail.  A well-formed "<mail>" after
\* the name yields that mail, and what follows the closing ">" is ignored.
C11_MalformedMailIsAbsent ==
    NameAndLt =>
        Returned(OkCoAuthor(Trimmed(BeforeLt(AfterKeys)), ExpectedMail(AfterKeys)),
                 Some([name |-> Trimmed(BeforeLt(AfterKeys)),
                       mail |-> ExpectedMail(AfterKeys)]))

\* try_from has returned the name and no mail for "<key>Al<a@w&gt;"
C11_Witness ==
    /\ call.fn = "try_from"
    /\ KeyAtStart
    /\ AfterKeys = Word \o EncodedClose
    /\ call.ret = OkCoAuthor(Word, None)

\* the co-author the last call returned, if it returned one
Parsed ==
    IF call.fn = "try_from" /\ call.ret.tag = "Ok"
    THEN {[name |-> call.ret.name, mail |-> call.ret.mail]}
    ELSE IF call.fn = "get_co_author" /\ call.ret # None
         THEN {call.ret[1]}
         ELSE {}

\* C12: on a successful parse the name is not empty, has no leading or
\* trailing white space and holds no "<"; the mail, when present, is not
\* empty, is the text strictly between the first "<" of the line and the
\* next ">", and holds no space, no tab and no ">".
C12_SuccessShape ==
    \A co \in Parsed :
        /\ co.name # <<>>
        /\ co.name = Trimmed(co.name)
        /\ ~HasLt(co.name)
        /\ co.mail # None =>
              /\ co.mail[1] # <<>>
              /\ co.mail[1] = Bracketed(line)
              /\ \A i \in 1 .. Len(co.mail[1]) : co.mail[1][i] \notin {" ", "\t", ">"}

\* try_from has returned a name with a blank inside and a mail that is
\* followed by more text
C12_Witness ==
    /\ call.fn = "try_from"
    /\ call.ret.tag = "Ok"
    /\ call.ret.name = Word \o <<" ">> \o Word
    /\ call.ret.mail = Some(<<"a", "@", "w">>)
    /\ line[Len(line)] = "x"

\* the error kinds CoAuthor::try_from has an arm for
HandledKinds == {"Tag", "TakeUntil", "Verify"}

\* C24: CoAuthor::try_from is total: on every line it returns exactly one of
\* Ok(CoAuthor), Err(MissingTrailerKey), Err(MissingName), Err(MissingMail)
\* and never reaches the unreachable! arm, because the only error kinds that
\* escape co_author are Tag, TakeUntil and Verify.
C24_TryFromTotal ==
    /\ ~co_author(line).ok => co_author(line).code \in HandledKinds
    /\ call.fn = "try_from" =>
          /\ call.ret.tag \in {"Ok", "Err"}
          /\ call.ret.tag = "Err" =>
                call.ret.error \in {"MissingTrailerKey", "MissingName", "MissingMail"}
          /\ call.ret.tag = "Ok" <=> co_author(line).ok

\* try_from has returned Ok on a line whose mail parser failed inside opt
\* with a kind try_from has no arm for (IsNot on "<>")
C24_Witness ==
    /\ call.fn = "try_from"
    /\ co_author_name(line).ok
    /\ ~mail_brackets(co_author_name(line).rest).ok
    /\ mail_brackets(co_author_name(line).rest).code = "IsNot"
    /\ call.ret.tag = "Ok"
    /\ call.ret.mail = None


(***************************************************************************)
(* src/stringcache.rs: the string interner.  An IndexSet is the sequence   *)
(* of its entries in insertion order; the entry at position i has index    *)
(* i - 1.                                                                  *)
(***************************************************************************)

\* const HAN_SOLO: &str = "Han Solo"
HAN_SOLO == <<"H", "a", "n", " ", "S", "o", "l", "o">>

\* the strings handed to intern: two that differ in case only, the solo
\* name and a name with an umlaut
CacheStrings == {HAN_SOLO, <<"A", "l">>, <<"a", "l">>, <<"B", "ö">>}

\* StringCache::new(): IndexSet::new()
StringCacheNew == <<>>

\* IndexSet::get_index_of(k)
get_index_of(set, k) ==
    IF \E i \in 1 .. Len(set) : set[i] = k
    THEN Some((CHOOSE i \in 1 .. Len(set) : set[i] = k) - 1)
    ELSE None

\* faulty variant of insert_full: the index returned is the new length
insert_full_new_len(set, k) ==
    IF get_index_of(set, k) # None
    THEN [set |-> set, index |-> get_index_of(set, k)[1], inserted |-> FALSE]
    ELSE [set |-> Append(set, k), index |-> Len(set) + 1, inserted |-> TRUE]

\* IndexSet::insert_full(k): (index, inserted); a new entry goes last
insert_full(set, k) ==
    IF get_index_of(set, k) # None
    THEN [set |-> set, index |-> get_index_of(set, k)[1], inserted |-> FALSE]
    ELSE [set |-> Append(set, k), index |-> Len(set), inserted |-> TRUE]

\* the None arm of intern: self.index_set.insert_full(k.into()).0
intern_insert(r) == [cache |-> r.set, id |-> r.index]

\* faulty variant of intern: no lookup, the string is appended on every call
intern_no_lookup(set, k) == [cache |-> Append(set, k), id |-> Len(set)]

\* StringCache::intern: the cache after the call and the id returned
intern(set, k) ==
    IF get_index_of(set, k) # None
    THEN [cache |-> set, id |-> get_index_of(set, k)[1]]
    ELSE intern_insert(insert_full(set, k))

\* faulty variant of get: an index past the end reads the last entry
get_clamped(set, index) ==
    IF index < Len(set) THEN Some(set[index + 1])
    ELSE IF set # <<>> THEN Some(set[Len(set)]) ELSE None

\* StringCache::get: self.index_set.get_index(index)
get(set, index) == IF index < Len(set) THEN Some(set[index + 1]) ELSE None

\* what indexing returns: the string, or the panic with its message
Value(v) == [tag |-> "Value", value |-> v]
PanicNoEntry(index) ==
    [tag |-> "Panic", message |-> "No entry for index", index |-> index]

\* the match of Index::index on the result o of self.get(index)
index_match(o, index) == IF o # None THEN Value(o[1]) ELSE PanicNoEntry(index)

\* impl Index<usize> for StringCache
index(set, i) == index_match(get(set, i), i)

\* the program has ended in a panic
Panicked == cache_call.fn = "index" /\ cache_call.ret.tag = "Panic"

\* a new cache; nothing else is in use
InitCache ==
    /\ string_cache = StringCacheNew
    /\ issued = <<>>
    /\ order = <<>>
    /\ cache_call = [fn |-> "none"]
    /\ counts = AuthorCountsDefault
    /\ log = [p \in Authors \X Authors |-> 0]
    /\ ncalls = 0
    /\ pieces = <<>>
    /\ line = <<>>
    /\ call = NoCall
    /\ NormUnused
    /\ RepoUnused
    /\ PathUnused
    /\ UiUnused

\* one call string_cache.intern(k)
Intern ==
    /\ ~Panicked
    /\ \E k \in CacheStrings :
          /\ string_cache' = intern(string_cache, k).cache
          /\ cache_call' = [fn |-> "intern", arg |-> k, ret |-> intern(string_cache, k).id]
          /\ issued' = IF k \in DOMAIN issued
                       THEN issued
                       ELSE [x \in (DOMAIN issued) \cup {k} |->
                                IF x = k THEN intern(string_cache, k).id ELSE issued[x]]
          /\ order' = IF k \in DOMAIN issued THEN order ELSE Append(order, k)
    /\ UNCHANGED <<countsVars, parseVars, normVars, repoVars, pathVars, uiVars>>

\* one read string_cache[i], of an index that is in use or past the end
IndexCache ==
    /\ ~Panicked
    /\ \E i \in 0 .. (Len(string_cache) + 1) :
          cache_call' = [fn |-> "index", arg |-> i, ret |-> index(string_cache, i)]
    /\ UNCHANGED <<string_cache, issued, order, countsVars, parseVars, normVars, repoVars,
                   pathVars, uiVars>>

NextCache == Intern \/ IndexCache

SpecCache == InitCache /\ [][NextCache]_vars


(***************************************************************************)
(* Properties of the string interner, under SpecCache.                     *)
(***************************************************************************)

\* C13: interning is stable and exact: a string interned again, after any
\* other interns, gets the id its first intern returned, the repeated call
\* adds no entry, and the cache resolves that id to exactly the string.
C13_InternStable ==
    /\ cache_call.fn = "intern" =>
          /\ cache_call.ret = issued[cache_call.arg]
          /\ index(string_cache, cache_call.ret) = Value(cache_call.arg)
    /\ \A k \in DOMAIN issued :
          /\ intern(string_cache, k) = [cache |-> string_cache, id |-> issued[k]]
          /\ index(string_cache, issued[k]) = Value(k)

\* "Al" was interned first, then two other strings, one of them "al", and
\* the last call interned "Al" again
C13_Witness ==
    /\ cache_call = [fn |-> "intern", arg |-> <<"A", "l">>, ret |-> 0]
    /\ order[1] = <<"A", "l">>
    /\ Len(string_cache) = 3
    /\ <<"a", "l">> \in DOMAIN issued

\* C14: ids are dense and in first-seen order: the k-th distinct string
\* interned has id k - 1 and resolves to itself, distinct strings have
\* distinct ids, and later interns change neither.
C14_DenseIds ==
    /\ Len(string_cache) = Len(order)
    /\ \A k \in 1 .. Len(order) :
          /\ issued[order[k]] = k - 1
          /\ index(string_cache, k - 1) = Value(order[k])
    /\ \A a \in DOMAIN issued, b \in DOMAIN issued : a # b => issued[a] # issued[b]

\* four distinct strings have been interned, the solo name third
C14_Witness ==
    /\ Len(order) = 4
    /\ order[3] = HAN_SOLO
    /\ cache_call.fn = "intern"
    /\ cache_call.ret = 3

\* C15: a read of an id that is not below the number of interned strings
\* ends in the panic "No entry for index" and leaves the cache unchanged.
C15_IndexPastEndPanics ==
    [][(cache_call'.fn = "index" /\ cache_call'.arg >= Len(string_cache)) =>
          /\ cache_call'.ret = PanicNoEntry(cache_call'.arg)
          /\ string_cache' = string_cache]_vars

\* the read of index 2 of a cache of two strings has panicked
C15_Witness ==
    /\ cache_call.fn = "index"
    /\ cache_call.arg = 2
    /\ Len(string_cache) = 2
    /\ cache_call.ret.tag = "Panic"


(***************************************************************************)
(* src/repo.rs: Replacements, the author-name normalizer.                  *)
(***************************************************************************)

\* static REPLACEMENTS: HashMap<char, &str>
REPLACEMENTS ==
    [c \in {"Ä", "ä", "Ö", "ö", "Ü", "ü", "ß"} |->
        CASE c = "Ä" -> <<"A", "e">>
          [] c = "ä" -> <<"a", "e">>
          [] c = "Ö" -> <<"O", "e">>
          [] c = "ö" -> <<"o", "e">>
          [] c = "Ü" -> <<"U", "e">>
          [] c = "ü" -> <<"u", "e">>
          [] c = "ß" -> <<"s", "s">>]

\* Cow::Borrowed(input) and Cow::Owned(new_string)
Borrowed(str) == [cow |-> "Borrowed", str |-> str]
Owned(str) == [cow |-> "Owned", str |-> str]

\* faulty variant of push_replaced: only the first character of the
\* replacement is pushed
push_replaced_short(c) == IF c \in DOMAIN REPLACEMENTS THEN <<REPLACEMENTS[c][1]>> ELSE <<c>>

\* match replacements.get(&c): push_str(replacement) or push(c)
push_replaced(c) == IF c \in DOMAIN REPLACEMENTS THEN REPLACEMENTS[c] ELSE <<c>>

\* the inner loop: new_string after every character of input was pushed
RECURSIVE new_string(_)
new_string(input) ==
    IF input = <<>> THEN <<>> ELSE push_replaced(Head(input)) \o new_string(Tail(input))

\* the outer loop reaches a character with replacements.contains_key(&c)
contains_key_any(input) == \E i \in 1 .. Len(input) : input[i] \in DOMAIN REPLACEMENTS

\* Replacements::replace_umlauts
replace_umlauts(input) ==
    IF contains_key_any(input) THEN Owned(new_string(input)) ELSE Borrowed(input)

\* self.0.iter().filter_map(|(replacing, replacements)| ..).next()
RECURSIVE first_replacement(_, _)
first_replacement(rs, name) ==
    IF rs = <<>> THEN None
    ELSE IF name = Head(rs)[1] THEN Some(Head(rs)[2])
    ELSE first_replacement(Tail(rs), name)

\* Option::unwrap_or
unwrap_or(o, default) == IF o # None THEN o[1] ELSE default

\* faulty variant of normalize_author_name: the name taken is looked up in
\* the rules once more
normalize_author_name_chained(rs, name) ==
    replace_umlauts(unwrap_or(first_replacement(rs, unwrap_or(first_replacement(rs, name), name)),
                              unwrap_or(first_replacement(rs, name), name)))

\* Replacements::normalize_author_name
normalize_author_name(rs, name) ==
    replace_umlauts(unwrap_or(first_replacement(rs, name), name))

\* the characters of the names: the seven of the table and two plain ones
NameChars == (DOMAIN REPLACEMENTS) \cup {"u", "e"}

\* the names handed to the normalizer
RawNames == UNION {[1 .. k -> NameChars] : k \in 0 .. MaxNameLen}

\* the rules: "ü" and "ue" are replaced, by "ue" or by "ßü"
RulePairs == {<<"ü">>, <<"u", "e">>} \X {<<"u", "e">>, <<"ß", "ü">>}
RuleLists == UNION {[1 .. k -> RulePairs] : k \in 0 .. MaxRules}

\* a list of rules and a name, nothing normalized yet
InitNormalize ==
    /\ rules \in RuleLists
    /\ raw \in RawNames
    /\ norm_call = [fn |-> "none"]
    /\ counts = AuthorCountsDefault
    /\ log = [p \in Authors \X Authors |-> 0]
    /\ ncalls = 0
    /\ pieces = <<>>
    /\ line = <<>>
    /\ call = NoCall
    /\ CacheUnused
    /\ RepoUnused
    /\ PathUnused
    /\ UiUnused

\* replacements.normalize_author_name(raw)
CallNormalize ==
    /\ norm_call' = [fn |-> "normalize_author_name", ret |-> normalize_author_name(rules, raw)]
    /\ UNCHANGED <<rules, raw, countsVars, parseVars, cacheVars, repoVars, pathVars,
                   uiVars>>

\* Replacements::replace_umlauts(raw)
CallReplaceUmlauts ==
    /\ norm_call' = [fn |-> "replace_umlauts", ret |-> replace_umlauts(raw)]
    /\ UNCHANGED <<rules, raw, countsVars, parseVars, cacheVars, repoVars, pathVars,
                   uiVars>>

NextNormalize == CallNormalize \/ CallReplaceUmlauts

SpecNormalize == InitNormalize /\ [][NextNormalize]_vars


(***************************************************************************)
(* Properties of the normalizer, under SpecNormalize.                      *)
(***************************************************************************)

\* the rules whose from side is the raw name
Matching == {i \in 1 .. Len(rules) : rules[i][1] = raw}

\* the name taken: the to side of the first matching rule, else the raw name
Taken ==
    IF Matching = {} THEN raw
    ELSE rules[CHOOSE i \in Matching : \A j \in Matching : i <= j][2]

\* C16: the first rule whose from side equals the raw name, compared before
\* any folding, gives the name taken, which is not looked up in the rules
\* again; with no such rule the raw name is taken; the result is the
\* folding of the name taken.
C16_FirstRuleNoChaining ==
    norm_call.fn = "normalize_author_name" =>
        norm_call.ret = replace_umlauts(Taken)

\* "ü" was normalized under the rules ü -> ue, ue -> ßü: the result is "ue"
C16_Witness ==
    /\ norm_call.fn = "normalize_author_name"
    /\ raw = <<"ü">>
    /\ rules = << <<(<<"ü">>), <<"u", "e">> >>, << <<"u", "e">>, <<"ß", "ü">> >> >>
    /\ norm_call.ret.str = <<"u", "e">>

\* the folding of one character, as the table of the specification has it
FoldedChar(c) ==
    CASE c = "Ä" -> <<"A", "e">>
      [] c = "ä" -> <<"a", "e">>
      [] c = "Ö" -> <<"O", "e">>
      [] c = "ö" -> <<"o", "e">>
      [] c = "Ü" -> <<"U", "e">>
      [] c = "ü" -> <<"u", "e">>
      [] c = "ß" -> <<"s", "s">>
      [] OTHER -> <<c>>

\* the positions of s that hold one of the seven characters
FoldedAt(s) == {i \in 1 .. Len(s) : FoldedChar(s[i]) # <<s[i]>>}

\* C17: replace_umlauts maps the seven characters to their two-letter
\* forms, character by character and in order, and keeps every other
\* character; an input with none of the seven is returned as it is,
\* borrowed; the output is as long as the input plus one for each of the
\* seven characters in it.
C17_ReplaceUmlauts ==
    norm_call.fn = "replace_umlauts" =>
        /\ Len(norm_call.ret.str) = Len(raw) + Cardinality(FoldedAt(raw))
        /\ \A i \in 1 .. Len(raw) :
              SubSeq(norm_call.ret.str,
                     i + Cardinality({j \in FoldedAt(raw) : j < i}),
                     i + Cardinality({j \in FoldedAt(raw) : j <= i})) = FoldedChar(raw[i])
        /\ FoldedAt(raw) = {} => norm_call.ret = Borrowed(raw)

\* "ßÄ" was folded to "ssAe", in a new string
C17_Witness ==
    /\ norm_call.fn = "replace_umlauts"
    /\ raw = <<"ß", "Ä">>
    /\ norm_call.ret = Owned(<<"s", "s", "A", "e">>)


(***************************************************************************)
(* src/repo.rs: Repo.  An aggregation pass is extract_author_counts; the   *)
(* revision walk is lazy, so the pass is modelled as its start, one step   *)
(* of the fold for each item the walk yields, and its return.              *)
(***************************************************************************)

\* a line without the "\r" that came before its "\n"
strip_cr(l) == IF l # <<>> /\ l[Len(l)] = "\r" THEN SubSeq(l, 1, Len(l) - 1) ELSE l

\* the lines of s, cur being the line read so far
RECURSIVE lines_from(_, _)
lines_from(s, cur) ==
    IF s = <<>> THEN (IF cur = <<>> THEN <<>> ELSE <<cur>>)
    ELSE IF Head(s) = "\n" THEN <<strip_cr(cur)>> \o lines_from(Tail(s), <<>>)
    ELSE lines_from(Tail(s), Append(cur, Head(s)))

\* str::lines: split at "\n" or "\r\n"; the final line ending is optional
lines(s) == lines_from(s, <<>>)

\* .map(|coauthor| coauthor.name) of what filter_map keeps of one line
name_of(o) == IF o # None THEN <<o[1].name>> ELSE <<>>

\* .lines().filter_map(|line| co_authors::get_co_author(line)).map(..name)
RECURSIVE co_author_names(_)
co_author_names(ls) ==
    IF ls = <<>> THEN <<>>
    ELSE name_of(get_co_author(Head(ls))) \o co_author_names(Tail(ls))

\* Itertools::pad_using(min, f) with a constant f
pad_using(s, min, v) ==
    IF Len(s) < min THEN s \o [i \in 1 .. (min - Len(s)) |-> v] ELSE s

\* faulty variant of get_navigators: the solo name is added to every list
get_navigators_plus_solo(commit_message) ==
    co_author_names(lines(commit_message)) \o <<HAN_SOLO>>

\* Repo::get_navigators
get_navigators(commit_message) ==
    pad_using(co_author_names(lines(commit_message)), 1, HAN_SOLO)

\* faulty variant of author_id: a new name gets the next id and is not
\* stored
author_id_not_stored(rs, cache, name) ==
    [cache |-> cache, id |-> intern(cache, normalize_author_name(rs, name).str).id]

\* Repo::author_id: the cache after the call and the id
author_id(rs, cache, name) == intern(cache, normalize_author_name(rs, name).str)

\* the body of the for loop, r being the author_id of the navigator
navigator_added(acc, driver, r) ==
    [cache |-> r.cache,
     counts |-> add_pair(acc.counts, driver, r.id),
     pairs |-> Append(acc.pairs, <<driver, r.id>>)]

\* for navigator in navigators { .. }
RECURSIVE add_navigators(_, _, _, _)
add_navigators(rs, acc, driver, navs) ==
    IF navs = <<>> THEN acc
    ELSE add_navigators(rs,
                        navigator_added(acc, driver, author_id(rs, acc.cache, Head(navs))),
                        driver, Tail(navs))

\* try_find_and_add_navigators after a, the author_id of the commit author
navigators_of(rs, c, a, commit_message) ==
    add_navigators(rs, [cache |-> a.cache, counts |-> c, pairs |-> <<>>], a.id,
                   get_navigators(commit_message))

\* nothing interned, nothing counted
untouched(cache, c) == [cache |-> cache, counts |-> c, pairs |-> <<>>]

\* Repo::try_find_and_add_navigators: commit.message()? and
\* author_name.name()? leave before anything is interned
try_find_and_add_navigators(rs, cache, c, commit) ==
    IF commit.message = None \/ commit.author = None
    THEN untouched(cache, c)
    ELSE navigators_of(rs, c, author_id(rs, cache, commit.author[1]), commit.message[1])

\* Repo::find_and_add_navigators: .unwrap_or_default(); author_counts
find_and_add_navigators(rs, cache, c, commit) ==
    try_find_and_add_navigators(rs, cache, c, commit)

\* .filter_map(|oid| repository.find_commit(oid.ok()?).ok())
found_commit(it) == IF it.kind = "commit" THEN Some(it.commit) ELSE None

\* .filter(|commit| commit.parent_count() == 1)
kept(o) == o # None /\ o[1].parent_count = 1

\* one item of the walk through filter_map, filter and the fold closure
fold_step(rs, cache, c, it) ==
    IF kept(found_commit(it))
    THEN find_and_add_navigators(rs, cache, c, it.commit)
    ELSE untouched(cache, c)

\* a git2::Error with its message
GitError(m) == [message |-> m]

\* the conversion of a git2::Error by `?`: the report holds the error
report_from(e) == [report |-> "git2::Error", error |-> e]

\* eyre!("Invalid range: `{}`. Git error: {}", range, err.message()): a new
\* report made of the formatted text (the quotes around the range left out)
invalid_range(range, e) ==
    [report |-> "message",
     text |-> <<"Invalid range: ", range, ". Git error: ", e.message>>]

\* eyre!("Git error: {}", err.message())
git_error(e) == [report |-> "message", text |-> <<"Git error: ", e.message>>]

\* faulty variant of push_error: the git error is converted as it is
push_error_plain(range, e) == report_from(e)

\* the map_err of the match on range
push_error(range, e) ==
    IF range # None THEN invalid_range(range[1], e) ELSE git_error(e)

\* extract_author_counts up to the fold: the error it returns, if any, when
\* revwalk() and the push fail with rw and push (None: no failure)
begin_error(range, rw, push) ==
    IF rw # None THEN Some(report_from(rw[1]))
    ELSE IF push # None THEN Some(push_error(range, push[1]))
    ELSE None

\* the git errors raised up to the fold, each with the call that raised it
begin_raised(range, rw, push) ==
    IF rw # None THEN <<[at |-> "revwalk", error |-> rw[1]]>>
    ELSE IF push = None THEN <<>>
    ELSE IF range # None
         THEN <<[at |-> "push_range", range |-> range[1], error |-> push[1]]>>
         ELSE <<[at |-> "push_head", error |-> push[1]]>>

\* Ok(author_counts)
OkCounts(c) == [tag |-> "Ok", counts |-> c]

\* the lines of the commit messages: plain text, trailers naming "Al", "Bö"
\* and the solo name, a trailer without a mail and one without a name
TextLine == <<"f", "i", "x">>
TrailerAl == KeyMixed \o <<" ">> \o Word \o <<" ">> \o MailBox
TrailerBo == KeyUpper \o <<" ", "B", "ö", " ">> \o MailBox
TrailerSolo == KeyMixed \o <<" ">> \o HAN_SOLO \o <<" ">> \o MailBox
NameOnlyLine == KeyMixed \o <<" ">> \o Word
NoNameLine == KeyMixed \o <<" ">> \o MailBox
NL == <<"\n">>
CRLF == <<"\r", "\n">>

\* the commit messages
MsgEmpty == <<>>
MsgNoTrailer == TextLine \o NL \o NL \o NameOnlyLine \o NL
MsgOne == TextLine \o CRLF \o CRLF \o TrailerAl
MsgTwo == TrailerBo \o NL \o TrailerAl \o NL
MsgTwice == TrailerAl \o NL \o NoNameLine \o NL \o TrailerAl
MsgSolo == TextLine \o NL \o TrailerSolo

Messages == {MsgEmpty, MsgNoTrailer, MsgOne, MsgTwo, MsgTwice, MsgSolo}

\* the names of the commit authors
AuthorNames == {Word, <<"B", "ö">>, HAN_SOLO}

\* a commit as the pass reads it: parent_count(), message() and
\* author().name(), the last two None when they are not UTF-8
Commit(n, m, a) == [parent_count |-> n, message |-> m, author |-> a]

\* the commits with one parent, two root commits and a merge commit
Commits ==
    {Commit(1, m, a) : m \in {None} \cup {Some(x) : x \in Messages},
                       a \in {None} \cup {Some(x) : x \in AuthorNames}}
    \cup {Commit(0, Some(MsgOne), Some(Word)), Commit(2, Some(MsgOne), Some(Word))}
    \cup {Commit(0, Some(MsgEmpty), Some(Word))}

\* what the walk yields: an error instead of an oid, an oid whose commit
\* cannot be found, or a commit
WalkItems ==
    {[kind |-> "oid_error", error |-> GitError("walk failed")],
     [kind |-> "find_error", error |-> GitError("object not found")]}
    \cup {[kind |-> "commit", commit |-> c] : c \in Commits}

\* the errors of revwalk(), push_range and push_head (None: no failure)
BeginFailures == {None, Some(GitError("bad revision"))}

\* the range argument
Ranges == {None, Some("a..b")}

\* the replacement rules the repository is opened with
RepoRules == {<<>>, << << <<"B", "ö">>, Word >> >>}

\* Repo::open: a new cache with the solo name interned
InitRepo ==
    /\ string_cache = intern(StringCacheNew, HAN_SOLO).cache
    /\ rules \in RepoRules
    /\ phase = "idle"
    /\ result = [tag |-> "none"]
    /\ item = [kind |-> "none"]
    /\ pairs = <<>>
    /\ raised = <<>>
    /\ nwalked = 0
    /\ view_call = [fn |-> "none"]
    /\ counts = AuthorCountsDefault
    /\ log = [p \in Authors \X Authors |-> 0]
    /\ ncalls = 0
    /\ pieces = <<>>
    /\ line = <<>>
    /\ call = NoCall
    /\ issued = <<>>
    /\ order = <<>>
    /\ cache_call = [fn |-> "none"]
    /\ raw = <<>>
    /\ norm_call = [fn |-> "none"]
    /\ PathUnused
    /\ UiUnused

\* a read has ended in the unknown-id panic
ViewPanicked == view_call.fn # "none" /\ view_call.ret.tag = "Panic"

\* extract_author_counts(range) up to the fold: it returns an error, or the
\* fold starts from AuthorCounts::default()
BeginPass ==
    /\ phase = "idle"
    /\ ~ViewPanicked
    /\ \E range \in Ranges, rw \in BeginFailures, push \in BeginFailures :
          /\ raised' = begin_raised(range, rw, push)
          /\ IF begin_error(range, rw, push) # None
             THEN /\ result' = Err(begin_error(range, rw, push)[1])
                  /\ phase' = "idle"
                  /\ counts' = counts
             ELSE /\ result' = [tag |-> "none"]
                  /\ phase' = "walking"
                  /\ counts' = AuthorCountsDefault
    /\ item' = [kind |-> "none"]
    /\ pairs' = <<>>
    /\ view_call' = [fn |-> "none"]
    /\ UNCHANGED <<string_cache, rules, nwalked, log, ncalls, parseVars,
                   issued, order, cache_call, raw, norm_call, pathVars,
                   uiVars>>

\* the walk yields one item and the fold takes it
WalkStep ==
    /\ phase = "walking"
    /\ nwalked < MaxWalk
    /\ \E it \in WalkItems :
          /\ item' = it
          /\ string_cache' = fold_step(rules, string_cache, counts, it).cache
          /\ counts' = fold_step(rules, string_cache, counts, it).counts
          /\ pairs' = fold_step(rules, string_cache, counts, it).pairs
          /\ raised' = IF it.kind = "commit" THEN raised
                       ELSE Append(raised, [at |-> it.kind, error |-> it.error])
    /\ nwalked' = nwalked + 1
    /\ UNCHANGED <<phase, result, rules, log, ncalls, parseVars,
                   issued, order, cache_call, raw, norm_call, view_call,
                   pathVars, uiVars>>

\* the walk is exhausted: Ok(author_counts)
FinishPass ==
    /\ phase = "walking"
    /\ phase' = "idle"
    /\ result' = OkCounts(counts)
    /\ UNCHANGED <<counts, string_cache, rules, item, pairs, raised, nwalked,
                   log, ncalls, parseVars, issued, order, cache_call, raw, norm_call,
                   view_call, pathVars, uiVars>>

\* self.0.values().map(|c| c.total).max()
max_total(pcounts) ==
    IF DOMAIN pcounts = {} THEN None
    ELSE Some(CHOOSE m \in {pcounts[b].total : b \in DOMAIN pcounts} :
                  \A b \in DOMAIN pcounts : pcounts[b].total <= m)

\* Option<u32>::unwrap_or_default
unwrap_or_default(o) == IF o # None THEN o[1] ELSE 0

\* faulty variant of max_value: the largest as_driver
max_value_as_driver(pcounts) ==
    IF DOMAIN pcounts = {} THEN 0
    ELSE CHOOSE m \in {pcounts[b].as_driver : b \in DOMAIN pcounts} :
             \A b \in DOMAIN pcounts : pcounts[b].as_driver <= m

\* PairingCounts::max_value
max_value(pcounts) == unwrap_or_default(max_total(pcounts))

\* what a resolving iterator yields when run to its end
Items(seq) == [tag |-> "Items", items |-> seq]

\* next() of the resolving iterators for each key of ord, the order in which
\* the inner map iterator yields its keys: the key is resolved with
\* string_cache[key], which panics for an unknown id
RECURSIVE resolve_each(_, _, _, _)
resolve_each(map, cache, ord, acc) ==
    IF ord = <<>> THEN Items(acc)
    ELSE IF index(cache, Head(ord)).tag = "Panic" THEN index(cache, Head(ord))
    ELSE resolve_each(map, cache, Tail(ord),
                      Append(acc, [name |-> index(cache, Head(ord)).value,
                                   entry |-> map[Head(ord)]]))

\* PairingCounts::resolving_iter, collected
resolving_iter(pcounts, cache, ord) == resolve_each(pcounts, cache, ord, <<>>)

\* AuthorCounts::into_resolving_iter, collected
into_resolving_iter(c, cache, ord) == resolve_each(c, cache, ord, <<>>)

\* the orders in which a hash map may yield the keys S
Orders(S) ==
    {f \in [1 .. Cardinality(S) -> S] :
        \A i \in 1 .. Cardinality(S), j \in 1 .. Cardinality(S) : i # j => f[i] # f[j]}

\* the returned counts can be read
CanRead == phase = "idle" /\ result.tag = "Ok" /\ ~ViewPanicked

\* the PairingCounts a caller can hold: those of the result, and a default
Readable == {result.counts[a] : a \in DOMAIN result.counts} \cup {PairingCountsDefault}

\* pairing_counts.max_value()
CallMaxValue ==
    /\ CanRead
    /\ \E pcounts \in Readable :
          view_call' = [fn |-> "max_value", of |-> pcounts,
                        ret |-> [tag |-> "Value", value |-> max_value(pcounts)]]
    /\ UNCHANGED <<countsVars, parseVars, cacheVars, normVars,
                   phase, result, item, pairs, raised, nwalked, pathVars,
                   uiVars>>

\* pairing_counts.resolving_iter(string_cache), run to its end
CallResolvingIter ==
    /\ CanRead
    /\ \E pcounts \in Readable :
          \E ord \in Orders(DOMAIN pcounts) :
              view_call' = [fn |-> "resolving_iter", of |-> pcounts,
                            ret |-> resolving_iter(pcounts, string_cache, ord)]
    /\ UNCHANGED <<countsVars, parseVars, cacheVars, normVars,
                   phase, result, item, pairs, raised, nwalked, pathVars,
                   uiVars>>

\* author_counts.into_resolving_iter(string_cache), run to its end
CallIntoResolvingIter ==
    /\ CanRead
    /\ \E ord \in Orders(DOMAIN result.counts) :
          view_call' = [fn |-> "into_resolving_iter", of |-> result.counts,
                        ret |-> into_resolving_iter(result.counts, string_cache, ord)]
    /\ UNCHANGED <<countsVars, parseVars, cacheVars, normVars,
                   phase, result, item, pairs, raised, nwalked, pathVars,
                   uiVars>>

NextRepo ==
    \/ BeginPass
    \/ WalkStep
    \/ FinishPass
    \/ CallMaxValue
    \/ CallResolvingIter
    \/ CallIntoResolvingIter

SpecRepo == InitRepo /\ [][NextRepo]_vars


(***************************************************************************)
(* Properties of the aggregation pass, under SpecRepo.                     *)
(***************************************************************************)

\* the names on the lines of a message that are well-formed trailers, in
\* message order
TrailerNames(m) ==
    CASE m = MsgOne -> <<Word>>
      [] m = MsgTwo -> << <<"B", "ö">>, Word >>
      [] m = MsgTwice -> <<Word, Word>>
      [] m = MsgSolo -> <<HAN_SOLO>>
      [] OTHER -> <<>>

\* the step takes a commit that is processed: one parent, a readable
\* message and a readable author name
Processed ==
    /\ nwalked' = nwalked + 1
    /\ item'.kind = "commit"
    /\ item'.commit.parent_count = 1
    /\ item'.commit.message # None
    /\ item'.commit.author # None

\* the id, after the step, of the name n once normalized
IdAfter(n) == get_index_of(string_cache', normalize_author_name(rules, n).str)[1]

\* the entry e with one more pairing as driver
OneMoreAsDriver(e) == [as_driver |-> e.as_driver + 1, total |-> e.total + 1]

\* C18, as the spec states it: the solo name has id 0 in every pass, and for
\* every processed commit whose message has no line that parses as a
\* trailer exactly one pairing is recorded, with the author as driver and
\* the solo name as navigator: the author's entry for id 0 gets
\* as_driver + 1 and total + 1.
C18_SoloPairingRecorded ==
    [][/\ index(string_cache', 0) = Value(HAN_SOLO)
       /\ (Processed /\ TrailerNames(item'.commit.message[1]) = <<>>) =>
             /\ pairs' = << <<IdAfter(item'.commit.author[1]), 0>> >>
             /\ Entry(counts', IdAfter(item'.commit.author[1]), 0)
                   = OneMoreAsDriver(Entry(counts, IdAfter(item'.commit.author[1]), 0))]_vars

\* counts after the calls add_pair(p[1], p[2]) for the pairs p of ps, in order
RECURSIVE AfterPairs(_, _)
AfterPairs(c, ps) ==
    IF ps = <<>> THEN c ELSE AfterPairs(add_pair(c, Head(ps)[1], Head(ps)[2]), Tail(ps))

\* C19: for a processed commit whose message has k >= 1 lines that parse as
\* trailers, exactly k add_pair(author, navigator) calls are made, one for
\* each such line in message order, a name on two lines twice, and none for
\* the solo name is added to them; the other lines contribute nothing.
C19_OnePairPerTrailer ==
    [][(Processed /\ TrailerNames(item'.commit.message[1]) # <<>>) =>
          /\ pairs' = [i \in 1 .. Len(TrailerNames(item'.commit.message[1])) |->
                          <<IdAfter(item'.commit.author[1]),
                            IdAfter(TrailerNames(item'.commit.message[1])[i])>>]
          /\ counts' = AfterPairs(counts, pairs')]_vars

\* a commit by "Bö" naming "Al" on two lines, with a line that does not
\* parse between them, was taken: two calls add_pair(Bö, Al)
C19_Witness ==
    /\ item = [kind |-> "commit", commit |-> Commit(1, Some(MsgTwice), Some(<<"B", "ö">>))]
    /\ rules = <<>>
    /\ Len(pairs) = 2
    /\ pairs[1] = pairs[2]
    /\ index(string_cache, pairs[1][1]) = Value(<<"B", "o", "e">>)
    /\ index(string_cache, pairs[1][2]) = Value(Word)
    /\ Entry(counts, pairs[1][1], pairs[1][2]).as_driver >= 2

Surfaced(r) ==
    CASE r.at = "revwalk" -> [report |-> "git2::Error", error |-> r.error]
      [] r.at = "push_range" ->
            [report |-> "message",
             text |-> <<"Invalid range: ", r.range, ". Git error: ", r.error.message>>]
      [] r.at = "push_head" ->
            [report |-> "message", text |-> <<"Git error: ", r.error.message>>]

IsRead(f) == view_call' # view_call /\ view_call'.fn = f

\* the items seq are one item for each entry of map, under the name the
\* cache holds for its id
OneItemPerEntry(seq, map, cache) ==
    /\ Len(seq) = Cardinality(DOMAIN map)
    /\ \A b \in DOMAIN map :
          /\ b < Len(cache)
          /\ Cardinality({i \in 1 .. Len(seq) :
                             seq[i] = [name |-> cache[b + 1], entry |-> map[b]]}) = 1

\* C21: max_value returns the largest total of the subject's entries, and 0
\* when there are none; max_value and resolving_iter leave the counts and
\* the cache as they were, so a repeated call returns the same; and
\* resolving_iter yields one (name, PairedWith) item for each stored entry,
\* the name being cache[co-author id].
C21_ReadOnlyViews ==
    [][/\ (IsRead("max_value") \/ IsRead("resolving_iter")) =>
             /\ counts' = counts
             /\ result' = result
             /\ string_cache' = string_cache
       /\ IsRead("max_value") =>
             /\ DOMAIN view_call'.of = {} => view_call'.ret.value = 0
             /\ DOMAIN view_call'.of # {} =>
                   /\ \E b \in DOMAIN view_call'.of :
                         view_call'.of[b].total = view_call'.ret.value
                   /\ \A b \in DOMAIN view_call'.of :
                         view_call'.of[b].total <= view_call'.ret.value
             /\ max_value(view_call'.of) = view_call'.ret.value
       /\ IsRead("resolving_iter") =>
             /\ view_call'.ret.tag = "Items"
             /\ OneItemPerEntry(view_call'.ret.items, view_call'.of, string_cache')]_vars

\* max_value has returned 2 for a subject paired twice with one co-author,
\* once of them as driver, and once with another
C21_Witness ==
    /\ view_call.fn = "max_value"
    /\ view_call.ret.value = 2
    /\ Cardinality(DOMAIN view_call.of) = 2
    /\ \E b \in DOMAIN view_call.of : view_call.of[b] = [as_driver |-> 0, total |-> 2]

\* every subject and co-author id of the counts c has an entry in the cache
IdsIssued(c, cache) ==
    \A a \in DOMAIN c :
        /\ a \in 0 .. (Len(cache) - 1)
        /\ \A b \in DOMAIN c[a] : b \in 0 .. (Len(cache) - 1)

\* C26: over any sequence of passes on one Repo (ended by Ok or by an error,
\* with or without a range) the cache only grows and every id keeps its
\* name; the driver id of a processed commit resolves to the normalized
\* author name; every id in the counts being built and in the counts a pass
\* returned has an entry in the cache; and no resolving iterator over
\* returned counts ends in the unknown-id panic.
C26_IdsStayResolvable ==
    [][/\ Len(string_cache') >= Len(string_cache)
       /\ \A i \in 0 .. (Len(string_cache) - 1) :
             index(string_cache', i) = index(string_cache, i)
       /\ Processed =>
             \A i \in 1 .. Len(pairs') :
                 /\ index(string_cache', pairs'[i][1])
                       = Value(normalize_author_name(rules, item'.commit.author[1]).str)
                 /\ index(string_cache', pairs'[i][2]).tag = "Value"
       /\ IdsIssued(counts', string_cache')
       /\ result'.tag = "Ok" => IdsIssued(result'.counts, string_cache')
       /\ view_call'.fn \in {"resolving_iter", "into_resolving_iter"} =>
             view_call'.ret.tag = "Items"]_vars

\* the counts of a later pass hold the ids 0 and 2 only, id 1 was issued to
\* "Boe" by an earlier pass (no single pass interns "Boe" first and counts
\* nothing for it), and into_resolving_iter has resolved both ids
C26_Witness ==
    /\ string_cache = <<HAN_SOLO, <<"B", "o", "e">>, Word>>
    /\ rules = <<>>
    /\ nwalked = 2
    /\ phase = "idle"
    /\ result.tag = "Ok"
    /\ DOMAIN result.counts = {0, 2}
    /\ view_call.fn = "into_resolving_iter"
    /\ view_call.ret.tag = "Items"
    /\ {it.name : it \in {view_call.ret.items[i] : i \in 1 .. Len(view_call.ret.items)}}
          = {HAN_SOLO, Word}

\* C27, as the spec states it: a commit the walk yields is left out of the
\* aggregation exactly when it has more than one parent; any other commit,
\* a root commit with no parent included, is handed to
\* find_and_add_navigators.
C27_SkipsExactlyMerges ==
    [][(nwalked' = nwalked + 1 /\ item'.kind = "commit") =>
          IF item'.commit.parent_count > 1
          THEN /\ counts' = counts
               /\ string_cache' = string_cache
               /\ pairs' = <<>>
          ELSE /\ counts' =
                     find_and_add_navigators(rules, string_cache, counts, item'.commit).counts
               /\ string_cache' =
                     find_and_add_navigators(rules, string_cache, counts, item'.commit).cache
               /\ pairs' =
                     find_and_add_navigators(rules, string_cache, counts, item'.commit).pairs]_vars

\* try_from's result says the same as the Option get_co_author returns
Agree(t, g) ==
    /\ g # None <=> t.tag = "Ok"
    /\ g # None => g[1].name = t.name /\ g[1].mail = t.mail
    /\ g = None <=>
          t.tag = "Err" /\ t.error \in {"MissingTrailerKey", "MissingName", "MissingMail"}

\* C25: get_co_author and try_from agree on every line: get_co_author
\* returns Some(c) exactly when try_from returns Ok(c), with the same name
\* and mail, and None exactly when try_from returns one of the three errors;
\* so the aggregation, which reads a message with get_co_author, drops a
\* trailer line that has a name and no "<".
C25_GetAgreesWithTryFrom ==
    /\ call.fn = "get_co_author" => Agree(try_from(line), call.ret)
    /\ call.fn = "try_from" => Agree(call.ret, get_co_author(line))
    /\ NameOnly =>
          /\ co_author_names(lines(line)) = <<>>
          /\ get_navigators(line) = <<HAN_SOLO>>

\* get_co_author has returned None for "<key> Al", which try_from rejects
\* for its missing mail, and the line yields no navigator
C25_Witness ==
    /\ call.fn = "get_co_author"
    /\ NameOnly
    /\ line = NameOnlyLine
    /\ call.ret = None
    /\ try_from(line) = Err("MissingMail")
    /\ lines(line) = <<line>>


(***************************************************************************)
(* src/author_path_counts.rs: additions and deletions per author.  The     *)
(* fields are u32 and are added to with +=, which on overflow panics in a  *)
(* build with overflow checks and wraps in a build without.                *)
(***************************************************************************)

\* a u32 is written as two 16-bit halves, hi * Half + lo
Half == 65536

\* the u32 with the halves hi and lo
u32(hi, lo) == [hi |-> hi, lo |-> lo]

\* u32::MAX
U32Max == u32(Half - 1, Half - 1)

\* x + y of two u32 overflows
overflows(x, y) == x.hi + y.hi + ((x.lo + y.lo) \div Half) >= Half

\* x + y of two u32 without overflow checks: the sum modulo 2^32
wrapping_add(x, y) ==
    u32((x.hi + y.hi + ((x.lo + y.lo) \div Half)) % Half, (x.lo + y.lo) % Half)

\* #[derive(Default)] Modifications { additions: 0, deletions: 0 }
ModificationsDefault == [additions |-> u32(0, 0), deletions |-> u32(0, 0)]

\* #[derive(Default)] AuthorPathCounts: the empty map
AuthorPathCountsDefault == [a \in {} |-> ModificationsDefault]

\* Modifications::add_additions, without overflow checks
mod_add_additions(m, additions) ==
    [m EXCEPT !.additions = wrapping_add(@, additions)]

\* Modifications::add_deletions, without overflow checks
mod_add_deletions(m, deletions) ==
    [m EXCEPT !.deletions = wrapping_add(@, deletions)]

\* AuthorPathCounts::author: self.0.entry(author).or_default()
path_author(c, a) ==
    IF a \in DOMAIN c
    THEN c
    ELSE [x \in (DOMAIN c) \cup {a} |-> IF x = a THEN ModificationsDefault ELSE c[x]]

\* the += of add_additions overflows
additions_overflow(c, a, additions) == overflows(path_author(c, a)[a].additions, additions)

\* the += of add_deletions overflows
deletions_overflow(c, a, deletions) == overflows(path_author(c, a)[a].deletions, deletions)

\* AuthorPathCounts::add_additions, when it returns
add_additions(c, a, additions) ==
    [path_author(c, a) EXCEPT ![a] = mod_add_additions(@, additions)]

\* AuthorPathCounts::add_deletions, when it returns
add_deletions(c, a, deletions) ==
    [path_author(c, a) EXCEPT ![a] = mod_add_deletions(@, deletions)]

\* the panic of += in a build with overflow checks
PanicOverflow == [tag |-> "Panic", message |-> "attempt to add with overflow"]

\* the call has returned
Returns == [tag |-> "Unit"]

\* the program has ended in a panic
PathPanicked == path_call.fn # "none" /\ path_call.ret.tag = "Panic"

\* the amounts passed: small ones, that of the tests, and the largest u32
Amounts == {u32(0, 1), u32(0, 42), U32Max}

\* the author ids: those the cache has issued
PathAuthors == 0 .. (Len(string_cache) - 1)

\* the amounts passed so far for author a, added up, in the history h
SumOf(h, a) == IF a \in DOMAIN h THEN h[a] ELSE u32(0, 0)

\* the sum of x and y as a number: its upper half is not bounded
Plus(x, y) == u32(x.hi + y.hi + ((x.lo + y.lo) \div Half), (x.lo + y.lo) % Half)

\* the history h with n more for author a
SumPlus(h, a, n) ==
    [x \in (DOMAIN h) \cup {a} |-> IF x = a THEN Plus(SumOf(h, a), n) ELSE h[x]]

\* Default::default() and a cache with two names interned, as in the test
\* resolving_iterator; the build has overflow checks or not
InitPath ==
    /\ path_counts = AuthorPathCountsDefault
    /\ path_sums = [additions |-> <<>>, deletions |-> <<>>, calls |-> 0]
    /\ path_call = [fn |-> "none"]
    /\ overflow_checks \in BOOLEAN
    /\ string_cache = intern(intern(StringCacheNew, Word).cache, <<"B", "o">>).cache
    /\ issued = <<>>
    /\ order = <<>>
    /\ cache_call = [fn |-> "none"]
    /\ counts = AuthorCountsDefault
    /\ log = [p \in Authors \X Authors |-> 0]
    /\ ncalls = 0
    /\ pieces = <<>>
    /\ line = <<>>
    /\ call = NoCall
    /\ NormUnused
    /\ RepoUnused
    /\ UiUnused

\* one call path_counts.add_additions(a, n)
AddAdditions ==
    /\ ~PathPanicked
    /\ path_sums.calls < MaxPathCalls
    /\ \E a \in PathAuthors, n \in Amounts :
          /\ path_sums' = [path_sums EXCEPT !.additions = SumPlus(@, a, n),
                                            !.calls = @ + 1]
          /\ IF overflow_checks /\ additions_overflow(path_counts, a, n)
             THEN /\ path_counts' = path_author(path_counts, a)
                  /\ path_call' = [fn |-> "add_additions", ret |-> PanicOverflow]
             ELSE /\ path_counts' = add_additions(path_counts, a, n)
                  /\ path_call' = [fn |-> "add_additions", ret |-> Returns]
    /\ UNCHANGED <<overflow_checks, countsVars, parseVars, cacheVars, normVars, repoVars,
                   uiVars>>

\* one call path_counts.add_deletions(a, n)
AddDeletions ==
    /\ ~PathPanicked
    /\ path_sums.calls < MaxPathCalls
    /\ \E a \in PathAuthors, n \in Amounts :
          /\ path_sums' = [path_sums EXCEPT !.deletions = SumPlus(@, a, n),
                                            !.calls = @ + 1]
          /\ IF overflow_checks /\ deletions_overflow(path_counts, a, n)
             THEN /\ path_counts' = path_author(path_counts, a)
                  /\ path_call' = [fn |-> "add_deletions", ret |-> PanicOverflow]
             ELSE /\ path_counts' = add_deletions(path_counts, a, n)
                  /\ path_call' = [fn |-> "add_deletions", ret |-> Returns]
    /\ UNCHANGED <<overflow_checks, countsVars, parseVars, cacheVars, normVars, repoVars,
                   uiVars>>

\* path_counts.clone().into_resolving_iter(string_cache), run to its end
PathIntoResolvingIter ==
    /\ ~PathPanicked
    /\ \E ord \in Orders(DOMAIN path_counts) :
          path_call' = [fn |-> "into_resolving_iter",
                        ret |-> resolve_each(path_counts, string_cache, ord, <<>>)]
    /\ UNCHANGED <<path_counts, path_sums, overflow_checks,
                   countsVars, parseVars, cacheVars, normVars, repoVars,
                   uiVars>>

NextPath == AddAdditions \/ AddDeletions \/ PathIntoResolvingIter

SpecPath == InitPath /\ [][NextPath]_vars


(***************************************************************************)
(* Properties of AuthorPathCounts, under SpecPath.                         *)
(***************************************************************************)

\* the Modifications of author a, zero when a has no entry
PathEntry(a) == IF a \in DOMAIN path_counts THEN path_counts[a] ELSE ModificationsDefault

\* C22, as the spec states it: after any sequence of calls each author's
\* additions is the sum of the amounts passed to add_additions for that
\* author and its deletions the sum of those passed to add_deletions (so
\* neither call changes the other field or another author), and
\* into_resolving_iter yields each author once, under its interned name,
\* with these values.
C22_SumsOfAmounts ==
    /\ \A a \in PathAuthors :
          /\ PathEntry(a).additions = SumOf(path_sums.additions, a)
          /\ PathEntry(a).deletions = SumOf(path_sums.deletions, a)
    /\ path_call.fn = "into_resolving_iter" =>
          /\ path_call.ret.tag = "Items"
          /\ OneItemPerEntry(path_call.ret.items, path_counts, string_cache)


(***************************************************************************)
(* src/app.rs: StatefulList, the author list of the terminal view.  A      *)
(* ListState is its selected index; the scroll offset is left out.         *)
(***************************************************************************)

\* usize::saturating_sub
saturating_sub(a, b) == IF a >= b THEN a - b ELSE 0

\* ListState::default() and ListState::select
ListStateDefault == [selected |-> None]
select(state, sel) == [state EXCEPT !.selected = sel]

\* StatefulList::with_items
with_items(items) ==
    [state |-> IF items # <<>> THEN select(ListStateDefault, Some(0)) ELSE ListStateDefault,
     items |-> items,
     current_items |-> <<>>]

\* Vec::get
vec_get(v, i) == IF i < Len(v) THEN Some(v[i + 1]) ELSE None

\* Option::unwrap_or
option_unwrap_or(o, d) == IF o # None THEN o[1] ELSE d

\* StatefulList::current
current(l) == vec_get(l.current_items, option_unwrap_or(l.state.selected, 0))

\* the value filter_down writes through i
clamped_index(i, len) == IF i >= len THEN saturating_sub(len, 1) ELSE i

\* StatefulList::filter_down.  `if let Some(i) = &mut self.state.selected()`
\* binds i to a temporary: selected() returns the Option<usize> by value, so
\* the assignment `*i = ..` writes clamped_index to that copy and
\* self.state is left as it was
filter_down(l, current_items) == [l EXCEPT !.current_items = current_items]

\* StatefulList::next
next(l) ==
    [l EXCEPT !.state =
        select(@, Some(IF l.state.selected = None THEN 0
                       ELSE IF l.state.selected[1] >= saturating_sub(Len(l.current_items), 1)
                            THEN 0
                            ELSE l.state.selected[1] + 1))]

\* StatefulList::previous
previous(l) ==
    [l EXCEPT !.state =
        select(@, Some(IF l.state.selected = None THEN 0
                       ELSE IF l.state.selected[1] = 0
                            THEN saturating_sub(Len(l.current_items), 1)
                            ELSE l.state.selected[1] - 1))]

\* the author ids a list is made of
ListIds == 0 .. (MaxItems - 1)

\* the item vectors: the ids of some authors, each once, in any order
ItemLists ==
    UNION {{f \in [1 .. k -> ListIds] : \A i \in 1 .. k, j \in 1 .. k : i # j => f[i] # f[j]}
               : k \in 0 .. MaxItems}

\* .iter().filter(..).copied().collect_vec(): the items in K, in order
RECURSIVE retain(_, _)
retain(items, K) ==
    IF items = <<>> THEN <<>>
    ELSE (IF Head(items) \in K THEN <<Head(items)>> ELSE <<>>) \o retain(Tail(items), K)

\* a new list
InitList ==
    /\ \E items \in ItemLists : list = with_items(items)
    /\ list_call = [fn |-> "with_items"]
    /\ app = <<>>
    /\ app_call = [fn |-> "none"]
    /\ extracted = 0
    /\ chan = <<>>
    /\ input_thread = "none"
    /\ main_loop = [at |-> "none"]
    /\ counts = AuthorCountsDefault
    /\ log = [p \in Authors \X Authors |-> 0]
    /\ ncalls = 0
    /\ pieces = <<>>
    /\ line = <<>>
    /\ call = NoCall
    /\ CacheUnused
    /\ NormUnused
    /\ RepoUnused
    /\ PathUnused

ListRest == <<app, app_call, extracted, chan, input_thread, main_loop>>

\* authors = StatefulList::with_items(items)
WithItems ==
    /\ \E items \in ItemLists : list' = with_items(items)
    /\ list_call' = [fn |-> "with_items"]
    /\ UNCHANGED <<countsVars, parseVars, cacheVars, normVars, repoVars, pathVars, ListRest>>

\* authors.filter_down(filtered), the filtered items as draw computes them
FilterDown ==
    /\ \E K \in SUBSET ListIds : list' = filter_down(list, retain(list.items, K))
    /\ list_call' = [fn |-> "filter_down"]
    /\ UNCHANGED <<countsVars, parseVars, cacheVars, normVars, repoVars, pathVars, ListRest>>

\* authors.next()
ListNext ==
    /\ list' = next(list)
    /\ list_call' = [fn |-> "next"]
    /\ UNCHANGED <<countsVars, parseVars, cacheVars, normVars, repoVars, pathVars, ListRest>>

\* authors.previous()
ListPrevious ==
    /\ list' = previous(list)
    /\ list_call' = [fn |-> "previous"]
    /\ UNCHANGED <<countsVars, parseVars, cacheVars, normVars, repoVars, pathVars, ListRest>>

NextList == WithItems \/ FilterDown \/ ListNext \/ ListPrevious

SpecList == InitList /\ [][NextList]_vars

\* max(len, 1) - 1
LastIndex(len) == IF len >= 1 THEN len - 1 ELSE 0

\* C28, as the spec states it: filter_down clamps the selection, so after
\* filter_down(items) an existing selection is at most max(len(items), 1) - 1,
\* and after any sequence of with_items, filter_down, next and previous the
\* selected index is a valid index whenever current_items is not empty.
C28_SelectionClamped ==
    [][/\ (list_call'.fn = "filter_down" /\ list'.state.selected # None) =>
             list'.state.selected[1] <= LastIndex(Len(list'.current_items))
       /\ (list'.state.selected # None /\ list'.current_items # <<>>) =>
             list'.state.selected[1] < Len(list'.current_items)]_vars


(***************************************************************************)
(* src/app.rs: App, the state behind the terminal view.  Its Repo is the   *)
(* string cache; AuthorCounts is here a BTreeMap<usize, BTreeMap<usize,    *)
(* u32>>.                                                                  *)
(***************************************************************************)

\* #[derive(Default)] RangeFilter
RangeFilter(filter, error) == [filter |-> filter, error |-> error]
RangeFilterDefault == RangeFilter(<<>>, <<>>)

\* an empty BTreeMap
BTreeMapNew == [k \in {} |-> 0]

\* App::new before its call of on_enter
AppNew(range) ==
    [should_quit |-> FALSE,
     current_author |-> None,
     authors |-> with_items(<<>>),
     co_author_counts |-> BTreeMapNew,
     navigator_counts |-> BTreeMapNew,
     search_filter |-> <<>>,
     author_widget_width |-> 0,
     range_filter_popup |-> Some(RangeFilter(option_unwrap_or(range, <<>>), <<>>))]

\* what Repo::extract_coauthors returns
OkCoauthors(navigator_counts, co_author_counts) ==
    [tag |-> "Ok", navigator_counts |-> navigator_counts,
     co_author_counts |-> co_author_counts]

\* the byte of an ASCII letter or a space, for the order of &str
byte(c) ==
    IF \E i \in 1 .. Len(UpperCase) : UpperCase[i] = c
    THEN 64 + (CHOOSE i \in 1 .. Len(UpperCase) : UpperCase[i] = c)
    ELSE IF \E i \in 1 .. Len(LowerCase) : LowerCase[i] = c
    THEN 96 + (CHOOSE i \in 1 .. Len(LowerCase) : LowerCase[i] = c)
    ELSE 32

\* a <= b for &str
RECURSIVE str_le(_, _)
str_le(a, b) ==
    IF a = <<>> THEN TRUE
    ELSE IF b = <<>> THEN FALSE
    ELSE IF byte(Head(a)) # byte(Head(b)) THEN byte(Head(a)) < byte(Head(b))
    ELSE str_le(Tail(a), Tail(b))

\* the sort key of apply_authors: string_cache().get(*k).unwrap_or_default()
name_key(cache, k) == option_unwrap_or(get(cache, k), <<>>)

\* x put into a vector sorted by key, after the elements that are not
\* greater (the sort is stable)
RECURSIVE insert_by_key(_, _, _)
insert_by_key(sorted, x, cache) ==
    IF sorted = <<>> THEN <<x>>
    ELSE IF str_le(name_key(cache, Head(sorted)), name_key(cache, x))
         THEN <<Head(sorted)>> \o insert_by_key(Tail(sorted), x, cache)
         ELSE <<x>> \o sorted

\* authors.sort_by_key(..)
RECURSIVE sort_from(_, _, _)
sort_from(v, acc, cache) ==
    IF v = <<>> THEN acc
    ELSE sort_from(Tail(v), insert_by_key(acc, Head(v), cache), cache)

sort_by_key(v, cache) == sort_from(v, <<>>, cache)

\* the keys of a BTreeMap in the order it iterates them
RECURSIVE keys_asc(_)
keys_asc(S) ==
    IF S = {} THEN <<>>
    ELSE <<CHOOSE m \in S : \A x \in S : m <= x>>
             \o keys_asc(S \ {CHOOSE m \in S : \A x \in S : m <= x})

\* for key in keys { inner.entry(*key).or_default(); }
with_keys(inner, keys) ==
    [k \in (DOMAIN inner) \cup keys |-> IF k \in DOMAIN inner THEN inner[k] ELSE 0]

\* for key in inner_navigators.keys() { inner_co_authors.insert(*key, 0); }
zeroes(keys) == [k \in keys |-> 0]

\* navigator_counts after the loop of apply_authors
merged_navigators(nav, co) ==
    [a \in DOMAIN nav |->
        IF a \in DOMAIN co THEN with_keys(nav[a], DOMAIN co[a]) ELSE nav[a]]

\* co_author_counts after the loop of apply_authors
merged_co_authors(nav, co) ==
    [a \in (DOMAIN co) \cup (DOMAIN nav) |->
        IF a \notin DOMAIN nav THEN co[a]
        ELSE IF a \notin DOMAIN co THEN zeroes(DOMAIN nav[a])
        ELSE with_keys(co[a], (DOMAIN nav[a]) \cup (DOMAIN co[a]))]

\* .iter().filter(|(_, inner)| !inner.is_empty()).map(|(author, _)| *author)
subjects(nav) == keys_asc({a \in DOMAIN nav : DOMAIN nav[a] # {}})

\* the widths of the names of the authors that the cache knows
widths(v, cache) == {Len(get(cache, v[i])[1]) : i \in {j \in 1 .. Len(v) : get(cache, v[j]) # None}}

\* .max().unwrap_or_default()
max_or_default(S) == IF S = {} THEN 0 ELSE CHOOSE m \in S : \A x \in S : x <= m

\* App::apply_authors
apply_authors(a, cache, navigator_counts, co_author_counts) ==
    [a EXCEPT
        !.authors = with_items(sort_by_key(
                        subjects(merged_navigators(navigator_counts, co_author_counts)), cache)),
        !.co_author_counts = merged_co_authors(navigator_counts, co_author_counts),
        !.navigator_counts = merged_navigators(navigator_counts, co_author_counts),
        !.author_widget_width =
            (max_or_default(widths(subjects(merged_navigators(navigator_counts,
                                                              co_author_counts)), cache))
             + 2) % Half]

\* App::on_up
on_up(a) == IF a.range_filter_popup = None THEN [a EXCEPT !.authors = previous(@)] ELSE a

\* App::on_down
on_down(a) == IF a.range_filter_popup = None THEN [a EXCEPT !.authors = next(@)] ELSE a

\* char::is_lowercase || char::is_whitespace, on the ASCII range
lowercase_or_whitespace(c) ==
    \/ \E i \in 1 .. Len(LowerCase) : LowerCase[i] = c
    \/ c \in WhiteSpace

\* App::on_key
on_key(a, c) ==
    IF a.range_filter_popup # None
    THEN [a EXCEPT !.range_filter_popup =
              Some([@[1] EXCEPT !.filter = Append(@, c)])]
    ELSE IF c = "Q" THEN [a EXCEPT !.should_quit = TRUE]
    ELSE IF c = "R" THEN [a EXCEPT !.range_filter_popup = Some(RangeFilterDefault)]
    ELSE IF lowercase_or_whitespace(c) THEN [a EXCEPT !.search_filter = Append(@, c)]
    ELSE a

\* on_enter gets past its two early exits and calls extract_coauthors
runs_extraction(a) ==
    /\ a.range_filter_popup # None
    /\ ~(a.range_filter_popup[1].filter = <<>> /\ a.range_filter_popup[1].error # <<>>)

\* the match on what extract_coauthors returned, the popup taken
on_extracted(a, cache, outcome) ==
    IF outcome.tag = "Ok"
    THEN apply_authors([a EXCEPT !.range_filter_popup = None], cache,
                       outcome.navigator_counts, outcome.co_author_counts)
    ELSE [a EXCEPT !.range_filter_popup = Some(RangeFilter(<<>>, outcome.error))]

\* faulty variant of on_enter: the error of the last attempt is not looked at
on_enter_again(a, cache, outcome) ==
    IF a.range_filter_popup # None THEN on_extracted(a, cache, outcome) ELSE a

\* App::on_enter, outcome being what extract_coauthors returns if called
on_enter(a, cache, outcome) ==
    IF runs_extraction(a) THEN on_extracted(a, cache, outcome) ELSE a

\* App::on_escape
on_escape(a) ==
    IF a.range_filter_popup = None
    THEN [a EXCEPT !.search_filter = <<>>]
    ELSE [a EXCEPT !.range_filter_popup = None]

\* String::pop
pop(str) == IF str = <<>> THEN str ELSE SubSeq(str, 1, Len(str) - 1)

\* App::on_backspace
on_backspace(a) ==
    IF a.range_filter_popup # None
    THEN [a EXCEPT !.range_filter_popup = Some([@[1] EXCEPT !.filter = pop(@)])]
    ELSE [a EXCEPT !.search_filter = pop(@)]

\* str_utils: starts_with_ignore_ascii_case
starts_with_ignore_ascii_case(str, prefix) ==
    /\ Len(prefix) <= Len(str)
    /\ \A i \in 1 .. Len(prefix) : to_lowercase(str[i]) = to_lowercase(prefix[i])

\* draw: the items whose name starts with the search filter
filtered_authors(a, cache) ==
    retain(a.authors.items,
           {k \in ListIds : /\ get(cache, k) # None
                            /\ starts_with_ignore_ascii_case(get(cache, k)[1],
                                                             a.search_filter)})

\* draw, as far as it changes the App
draw(a, cache) == [a EXCEPT !.authors = filter_down(@, filtered_authors(a, cache))]

\* the characters typed
KeyChars == {"Q", "R", "a", "h"}

\* the text of the errors extract_coauthors returns
ErrorTexts == {<<"I", "n", "v", "a", "l", "i", "d">>, <<"G", "i", "t">>}

\* the counts extract_coauthors returns: none; a driver without co-author
\* counts; counts on both sides with an empty inner map; co-author counts
\* alone
CountPairs ==
    { <<BTreeMapNew, BTreeMapNew>>,
      <<(1 :> (0 :> 2)), BTreeMapNew>>,
      <<(1 :> (2 :> 1)) @@ (2 :> BTreeMapNew), (1 :> (0 :> 1)) @@ (2 :> (1 :> 3))>>,
      <<BTreeMapNew, (2 :> (1 :> 1))>> }

\* Repo::extract_coauthors: an error, or the two tables
ExtractOutcomes ==
    {Err(t) : t \in ErrorTexts} \cup {OkCoauthors(p[1], p[2]) : p \in CountPairs}

\* the cache of the Repo: "Han Solo", "Bo", "Al"
AppCache == <<HAN_SOLO, <<"B", "o">>, Word>>

\* the --range argument
RangeArgs == {None, Some(<<"a">>)}

\* extract_coauthors was not called
NotCalled == [tag |-> "none"]

\* App::new(repo, range)
InitApp ==
    /\ string_cache = AppCache
    /\ \E range \in RangeArgs, outcome \in ExtractOutcomes :
          /\ app = on_enter(AppNew(range), AppCache, outcome)
          /\ app_call = [fn |-> "new", outcome |-> outcome]
          /\ extracted = 1
    /\ list = <<>>
    /\ list_call = [fn |-> "none"]
    /\ chan = <<>>
    /\ input_thread = "none"
    /\ main_loop = [at |-> "none"]
    /\ counts = AuthorCountsDefault
    /\ log = [p \in Authors \X Authors |-> 0]
    /\ ncalls = 0
    /\ pieces = <<>>
    /\ line = <<>>
    /\ call = NoCall
    /\ issued = <<>>
    /\ order = <<>>
    /\ cache_call = [fn |-> "none"]
    /\ NormUnused
    /\ RepoUnused
    /\ PathUnused

AppRest ==
    <<countsVars, parseVars, cacheVars, normVars, repoVars, pathVars,
      list, list_call, chan, input_thread, main_loop>>

\* the filter a character would be pushed to has room for it
HasRoom(a) ==
    IF a.range_filter_popup # None
    THEN Len(a.range_filter_popup[1].filter) < MaxFilterLen
    ELSE Len(a.search_filter) < MaxFilterLen

\* app.on_up()
OnUp ==
    /\ app' = on_up(app)
    /\ app_call' = [fn |-> "on_up"]
    /\ UNCHANGED <<extracted, AppRest>>

\* app.on_down()
OnDown ==
    /\ app' = on_down(app)
    /\ app_call' = [fn |-> "on_down"]
    /\ UNCHANGED <<extracted, AppRest>>

\* app.on_key(c)
OnKey ==
    /\ HasRoom(app)
    /\ \E c \in KeyChars :
          /\ app' = on_key(app, c)
          /\ app_call' = [fn |-> "on_key", c |-> c]
    /\ UNCHANGED <<extracted, AppRest>>

\* app.on_enter()
OnEnter ==
    /\ \E outcome \in ExtractOutcomes :
          /\ app' = on_enter(app, string_cache, outcome)
          /\ app_call' = [fn |-> "on_enter",
                           outcome |-> IF runs_extraction(app) THEN outcome ELSE NotCalled]
    /\ runs_extraction(app) => extracted < MaxExtractions
    /\ extracted' = IF runs_extraction(app) THEN extracted + 1 ELSE extracted
    /\ UNCHANGED AppRest

\* app.on_escape()
OnEscape ==
    /\ app' = on_escape(app)
    /\ app_call' = [fn |-> "on_escape"]
    /\ UNCHANGED <<extracted, AppRest>>

\* app.on_backspace()
OnBackspace ==
    /\ app' = on_backspace(app)
    /\ app_call' = [fn |-> "on_backspace"]
    /\ UNCHANGED <<extracted, AppRest>>

\* draw(frame, &mut app)
Draw ==
    /\ app' = draw(app, string_cache)
    /\ app_call' = [fn |-> "draw"]
    /\ UNCHANGED <<extracted, AppRest>>

NextApp == OnUp \/ OnDown \/ OnKey \/ OnEnter \/ OnEscape \/ OnBackspace \/ Draw

SpecApp == InitApp /\ [][NextApp]_vars

\* the author list and the two count tables are as before the step
TablesKept ==
    /\ app'.authors = app.authors
    /\ app'.co_author_counts = app.co_author_counts
    /\ app'.navigator_counts = app.navigator_counts

\* the popup holds an empty filter and the error of a failed extraction
ShowsError(a) ==
    /\ a.range_filter_popup # None
    /\ a.range_filter_popup[1].filter = <<>>
    /\ a.range_filter_popup[1].error # <<>>

\* C29: on_enter with the range popup open: while the popup holds an empty
\* filter and a non-empty error, on_enter changes nothing and runs no
\* extraction; otherwise it runs one extraction, and if that fails the
\* author list and both count tables keep their values and the popup is
\* open again with an empty filter and the error text, and if it succeeds
\* the popup is closed.  With no popup open on_enter changes nothing.
C29_OnEnter ==
    [][app_call'.fn = "on_enter" =>
          /\ app.range_filter_popup = None =>
                app' = app /\ extracted' = extracted
          /\ ShowsError(app) =>
                app' = app /\ extracted' = extracted
          /\ (app.range_filter_popup # None /\ ~ShowsError(app)) =>
                /\ extracted' = extracted + 1
                /\ app_call'.outcome.tag = "Err" =>
                      /\ TablesKept
                      /\ app'.range_filter_popup
                            = Some(RangeFilter(<<>>, app_call'.outcome.error))
                      /\ app' = [app EXCEPT !.range_filter_popup = app'.range_filter_popup]
                /\ app_call'.outcome.tag = "Ok" =>
                      app'.range_filter_popup = None]_vars

\* after an extraction that listed authors a later one failed (the list
\* kept, the popup showing the error), and on_enter was called again on the
\* error: nothing was run or changed
C29_Witness ==
    /\ app_call.fn = "on_enter"
    /\ app_call.outcome = NotCalled
    /\ ShowsError(app)
    /\ app.authors.items # <<>>
    /\ extracted = 2


(***************************************************************************)
(* src/ui.rs: render_coauthors.  The thread spawned by Events::with_config *)
(* reads keys and sends them over an mpsc channel; the main loop draws,    *)
(* receives one key, hands it to the App and leaves when should_quit is    *)
(* set.  The sender is dropped when the input thread returns, the receiver *)
(* when render_coauthors returns.                                          *)
(***************************************************************************)

\* termion::event::Key
Char(c) == [key |-> "Char", c |-> c]
Up == [key |-> "Up"]
Down == [key |-> "Down"]
Esc == [key |-> "Esc"]
Backspace == [key |-> "Backspace"]
Left == [key |-> "Left"]

\* Config::default(): exit_key
exit_key == Char("Q")

\* the App of ui.rs: no current_author, and on_up and on_down do not look at
\* the popup
UiAppNew(range) ==
    [f \in (DOMAIN AppNew(range)) \ {"current_author"} |-> AppNew(range)[f]]

ui_on_up(a) == [a EXCEPT !.authors = previous(@)]

ui_on_down(a) == [a EXCEPT !.authors = next(@)]

\* the match on the key in the loop of render_coauthors
on_input(a, cache, k, outcome) ==
    IF k = Char("\n") THEN on_enter(a, cache, outcome)
    ELSE IF k.key = "Char" THEN on_key(a, k.c)
    ELSE IF k = Up THEN ui_on_up(a)
    ELSE IF k = Down THEN ui_on_down(a)
    ELSE IF k = Esc THEN on_escape(a)
    ELSE IF k = Backspace THEN on_backspace(a)
    ELSE a

\* mpsc::channel(): nothing queued, sender and receiver alive
channel == [queue |-> <<>>, tx |-> TRUE, rx |-> TRUE]

\* what render_coauthors returns
OkUnit == [tag |-> "Ok"]
RecvError == [tag |-> "Err", error |-> "RecvError"]
IoError == [tag |-> "Err", error |-> "io::Error"]

\* the keys typed
LoopKeys == {Char("\n"), Char("Q"), Char("R"), Char("a"), Up, Down, Esc, Backspace, Left}

\* render_coauthors up to its loop: App::new and Events::with_config
InitLoop ==
    /\ string_cache = AppCache
    /\ \E range \in RangeArgs, outcome \in ExtractOutcomes :
          /\ app = on_enter(UiAppNew(range), AppCache, outcome)
          /\ app_call = [fn |-> "new", outcome |-> outcome]
    /\ extracted = 1
    /\ chan = channel
    /\ input_thread = [at |-> "keys", nread |-> 0]
    /\ main_loop = [at |-> "draw"]
    /\ list = <<>>
    /\ list_call = [fn |-> "none"]
    /\ counts = AuthorCountsDefault
    /\ log = [p \in Authors \X Authors |-> 0]
    /\ ncalls = 0
    /\ pieces = <<>>
    /\ line = <<>>
    /\ call = NoCall
    /\ issued = <<>>
    /\ order = <<>>
    /\ cache_call = [fn |-> "none"]
    /\ NormUnused
    /\ RepoUnused
    /\ PathUnused

LoopRest ==
    <<countsVars, parseVars, cacheVars, normVars, repoVars, pathVars, list, list_call>>

\* the input thread: stdin.keys() yields an error, which is passed over
InputSkip ==
    /\ input_thread.at = "keys"
    /\ input_thread.nread < MaxKeys
    /\ input_thread' = [input_thread EXCEPT !.nread = @ + 1]
    /\ UNCHANGED <<app, app_call, extracted, chan, main_loop, LoopRest>>

\* the input thread: stdin.keys() yields a key and tx.send(Event::Input(key))
\* queues it; with the receiver gone the send fails and the thread returns
InputSend ==
    /\ input_thread.at = "keys"
    /\ input_thread.nread < MaxKeys
    /\ \E k \in LoopKeys :
          IF chan.rx
          THEN /\ chan' = [chan EXCEPT !.queue = Append(@, k)]
               /\ input_thread' = [at |-> "sent", key |-> k,
                                   nread |-> input_thread.nread + 1]
          ELSE /\ chan' = [chan EXCEPT !.tx = FALSE]
               /\ input_thread' = [at |-> "returned", nread |-> input_thread.nread + 1]
    /\ UNCHANGED <<app, app_call, extracted, main_loop, LoopRest>>

\* the input thread: if key == config.exit_key { return; }
InputExitKey ==
    /\ input_thread.at = "sent"
    /\ IF input_thread.key = exit_key
       THEN /\ input_thread' = [at |-> "returned", nread |-> input_thread.nread]
            /\ chan' = [chan EXCEPT !.tx = FALSE]
       ELSE /\ input_thread' = [at |-> "keys", nread |-> input_thread.nread]
            /\ chan' = chan
    /\ UNCHANGED <<app, app_call, extracted, main_loop, LoopRest>>

\* the main loop: terminal.draw(|frame| draw(frame, &mut app))?
MainDraw ==
    /\ main_loop.at = "draw"
    /\ app' = draw(app, string_cache)
    /\ app_call' = [fn |-> "draw"]
    /\ \/ /\ main_loop' = [at |-> "next"]
          /\ chan' = chan
       \/ /\ main_loop' = [at |-> "returned", ret |-> IoError]
          /\ chan' = [chan EXCEPT !.rx = FALSE]
    /\ UNCHANGED <<extracted, input_thread, LoopRest>>

\* the main loop: events.next()? returns a key, the App handles it, and the
\* loop breaks if should_quit is set
MainInput ==
    /\ main_loop.at = "next"
    /\ chan.queue # <<>>
    /\ \E outcome \in ExtractOutcomes :
          /\ app' = on_input(app, string_cache, Head(chan.queue), outcome)
          /\ app_call' = [fn |-> "on_input", key |-> Head(chan.queue)]
          /\ IF on_input(app, string_cache, Head(chan.queue), outcome).should_quit
             THEN /\ main_loop' = [at |-> "returned", ret |-> OkUnit]
                  /\ chan' = [chan EXCEPT !.queue = Tail(@), !.rx = FALSE]
             ELSE /\ main_loop' = [at |-> "draw"]
                  /\ chan' = [chan EXCEPT !.queue = Tail(@)]
    /\ extracted' = IF Head(chan.queue) = Char("\n") /\ runs_extraction(app)
                    THEN extracted + 1
                    ELSE extracted
    /\ UNCHANGED <<input_thread, LoopRest>>

\* the main loop: events.next()? on an empty channel whose sender is gone
MainRecvError ==
    /\ main_loop.at = "next"
    /\ chan.queue = <<>>
    /\ ~chan.tx
    /\ main_loop' = [at |-> "returned", ret |-> RecvError]
    /\ chan' = [chan EXCEPT !.rx = FALSE]
    /\ UNCHANGED <<app, app_call, extracted, input_thread, LoopRest>>

NextLoop ==
    InputSkip \/ InputSend \/ InputExitKey \/ MainDraw \/ MainInput \/ MainRecvError

SpecLoop == InitLoop /\ [][NextLoop]_vars

\* C30, as the spec states it: the input thread stops reading only after it
\* forwarded the exit key, and then the main loop sets should_quit on that
\* key and leaves with Ok; so over every interleaving and key sequence, a
\* "Q" typed into the open range popup included, the loop never ends with
\* the receive error of the closed channel while should_quit is false.
C30_NoRecvErrorBeforeQuit ==
    ~(/\ main_loop.at = "returned"
      /\ main_loop.ret = RecvError
      /\ ~app.should_quit)

=============================================================================
